---- MODULE Spec2Model ----
(***************************************************************************)
(* Sora Invite Code Hunter: the candidate repository (in-memory and        *)
(* SQLite backends), the item-processing pipeline of the hunter, and the   *)
(* two poll loops (app.py poller with AdapterState, Pro edition            *)
(* _poll_sources with SourceSpec).                                         *)
(***************************************************************************)
EXTENDS Integers, Sequences, FiniteSets, TLC

VARIABLES
    store,      \* InMemoryRepository._store, insertion-ordered: <<[key, rec]>>
    db,         \* SQLite candidates table: [rows |-> <<row>>, seq |-> last AUTOINCREMENT id]
    last,       \* the last repository call: its operation, argument and both results
    backend,    \* STORE of create_repository: "memory" or "sqlite"
    lock,       \* InMemoryRepository._lock: 0 when free, else the holding caller
    cpc,        \* per concurrent caller: its position inside add_candidate
    carg,       \* per concurrent caller: the candidate it passes
    cfound,     \* per concurrent caller: the result of its `code in self._store` test
    raced,      \* history: some call entered while another call with the same code was in flight
    cret,       \* per concurrent caller: "True" or "False" as returned ("none" before the return)
    hpc,        \* position of the poller thread inside process_items
    pending,    \* process_items: the (source, code) pairs still to be offered, in order
    cur,        \* process_items: the candidate in hand
    polls,      \* number of fetches processed so far (also the reading of datetime.now())
    inserted,   \* history, per code: add_candidate calls of process_items that returned True
    published,  \* history, per code: broadcaster.publish calls
    notified,   \* history, per code: notifier.notify calls
    edition,    \* which poll loop runs: "app" (app.py poller) or "pro" (sora_invite._poll_sources)
    interval,   \* POLL_INTERVAL_SECONDS as configured
    backoff,    \* AdapterState.backoff, per adapter
    next_run,   \* AdapterState.next_run, per adapter, in seconds from the present
    ppc,        \* position of the poll loop
    idx,        \* position of the for loop over the states / SOURCES
    stop,       \* stop_event.is_set()
    ev,         \* history: the last step of the poll loop and the source it concerned
    nfail,      \* history, per source of app.py: failures since its last success, counted
                \* up to FailCap while none of them was rate-limited and kept at 1 after that
    plain,      \* history, per source of app.py: none of those failures was rate-limited
    dueAtTick,  \* history: the sources that were due when the running tick began
    ran,        \* history: the sources fetched in the running tick
    seen,       \* history: the sources whose turn has come in the running tick
    enabled,    \* SourceSpec.enabled, per source
    failure_count,   \* SourceSpec.failure_count, per source
    cooldown_until,  \* SourceSpec.cooldown_until, per source, in seconds from the present (None when unset)
    disabled_reason, \* SourceSpec.disabled_reason, per source
    disabled_set,    \* DISABLE_SOURCES as configured
    elapsed,    \* time.time() - start_time of the running poll cycle
    fadapter,   \* the adapter (app.py) or fetcher (Pro edition) of the source that is polled
    fin,        \* what the last poll met: the outcome of each request, of each add_candidate
    fout,       \* what the last poll did: requests made, error raised, items, candidates handled
    clients,    \* EventBroadcaster._clients: the registered subscribers, in order of registration
    queues,     \* per subscriber: the queue.Queue that register made for it (NoQueue before)
    bpc,        \* position of the publisher inside EventBroadcaster.publish
    bsnap,      \* publish: the local list `clients`
    bi,         \* publish: position of the for loop over `clients`
    payload,    \* publish: the payload in hand (the number of the call)
    atcall,     \* history: the subscribers registered when the running publish was called
    got,        \* history, per subscriber: the payloads that were put into its queue
    settings,   \* ExtractionSettings of the extractor: min_len, max_len, denylist
    text,       \* the text handed to CodeExtractor.extract, in pieces (characters, "http://")
    matches,    \* what extract returned
    xpc,        \* "idle" before the call of extract, "done" after it
    polling_thread,  \* app.py: the module's polling_thread (None before the module has run)
    worker_thread,   \* Pro edition: AppState.worker_thread (None, or the thread)
    alive,      \* the poller threads t with t.is_alive()
    slock,      \* Pro edition: AppState.lock, 0 when free, else the thread that holds it
    spc,        \* per caller of _start_background_thread: its position in it
    pos,        \* per poller thread: the source it is at and what it does with it
    seen_codes, \* Pro edition: AppState.seen_codes
    state_candidates, \* Pro edition: AppState.candidates (state.candidates), the codes of the Candidates in order
    epc,        \* per caller of _process_entries: its position in it
    etokens,    \* per caller of _process_entries: the tokens of the entry still to come
    ecur,       \* per caller of _process_entries: the token in hand
    efound,     \* per caller of _process_entries: what `token in state.seen_codes` gave
    appended,   \* history, per token: the Candidates appended for it
    ecalls      \* history: the calls of _process_entries so far

repoVars == <<store, db, last>>
concVars == <<backend, lock, cpc, carg, cfound, cret, raced>>
hunterVars == <<hpc, pending, cur, polls, inserted, published, notified>>
proVars == <<enabled, failure_count, cooldown_until, disabled_reason, disabled_set, elapsed>>
schedVars == <<edition, interval, backoff, next_run, ppc, idx, stop, ev, nfail, plain,
               dueAtTick, ran, seen, proVars>>
fetchVars == <<fadapter, fin, fout>>
broadcastVars == <<clients, queues, bpc, bsnap, bi, payload, atcall, got>>
extractVars == <<settings, text, matches, xpc>>
startVars == <<polling_thread, worker_thread, alive, spc, pos>>
entriesVars == <<seen_codes, state_candidates, epc, etokens, ecur, efound, appended, ecalls>>
threadVars == <<slock, startVars, entriesVars>>
moreVars == <<fetchVars, broadcastVars, extractVars, threadVars>>
vars == <<store, db, last, backend, lock, cpc, carg, cfound, cret, raced,
          hpc, pending, cur, polls, inserted, published, notified,
          edition, interval, backoff, next_run, ppc, idx, stop, ev, nfail, plain,
          dueAtTick, ran, seen,
          enabled, failure_count, cooldown_until, disabled_reason, disabled_set, elapsed,
          fadapter, fin, fout,
          clients, queues, bpc, bsnap, bi, payload, atcall, got,
          settings, text, matches, xpc,
          polling_thread, worker_thread, alive, slock, spc, pos,
          seen_codes, state_candidates, epc, etokens, ecur, efound, appended, ecalls>>
\* what the sequential repository calls leave alone
nonRepoVars == <<concVars, hunterVars, schedVars, moreVars>>
\* what the concurrent callers leave alone
nonConcVars == <<hunterVars, schedVars, moreVars>>
\* what the poll loops leave alone
nonSchedVars == <<store, db, last, concVars, hunterVars, moreVars>>
\* what the broadcaster leaves alone
nonBroadcastVars == <<store, db, last, concVars, hunterVars, schedVars, fetchVars, extractVars, threadVars>>

----------------------------------------------------------------------------
(* Bounds *)

\* largest AUTOINCREMENT id handed out (bounds the number of inserts)
MaxRowId == 2
\* discovery timestamps are drawn from 1..MaxStamp
MaxStamp == 2
\* number of threads calling add_candidate concurrently
NumCallers == 2
\* largest number of adapters / sources the poll loop drives
NumSources == 2
\* consecutive failures of a source are counted up to FailCap
FailCap == 4

\* app.py:49
MAX_BACKOFF == 300
\* sora_invite.py:42-43
DEFAULT_FAILURE_THRESHOLD == 4
DEFAULT_COOLDOWN_SECONDS == 600

\* Optional[float] that is unset
None == -1

----------------------------------------------------------------------------
(* Codes are character sequences so that str.upper() is a real conversion *)

UpperChar(ch) ==
    CASE ch = "a" -> "A"
      [] ch = "b" -> "B"
      [] ch = "h" -> "H"
      [] ch = "p" -> "P"
      [] ch = "s" -> "S"
      [] ch = "t" -> "T"
      [] OTHER -> ch

Upper(code) == [i \in DOMAIN code |-> UpperChar(code[i])]

\* the code arguments callers pass: two spellings of one code and another code
CodeInputs == { <<"A", "1">>, <<"a", "1">>, <<"B", "2">> }

SourceNames == {"reddit_search", "generic_rss"}

\* CandidateRecord as built by the callers (tried and hidden start at 0)
CandidateInputs ==
    [code : CodeInputs, source : {"reddit_search"}, discovered_at : 1..MaxStamp,
     tried : {0}, hidden : {0}]

NoRecord == [code |-> <<>>, source |-> "", discovered_at |-> 0, tried |-> 0, hidden |-> 0]

----------------------------------------------------------------------------
(* InMemoryRepository *)

MemIndex(st, key) ==
    IF \E i \in DOMAIN st : st[i].key = key
    THEN CHOOSE i \in DOMAIN st : st[i].key = key
    ELSE 0

MemGet(st, key) == IF MemIndex(st, key) = 0 THEN NoRecord ELSE st[MemIndex(st, key)].rec

RemoveAt(s, i) == [j \in 1..(Len(s) - 1) |-> IF j < i THEN s[j] ELSE s[j + 1]]

\* an add that overwrites the stored record of a code it finds
Mem_add_candidate_upsert(st, candidate) ==
    LET code == Upper(candidate.code) IN
    IF MemIndex(st, code) # 0
    THEN [s |-> [st EXCEPT ![MemIndex(st, code)].rec = candidate], r |-> FALSE]
    ELSE [s |-> Append(st, [key |-> code, rec |-> candidate]), r |-> TRUE]

Mem_add_candidate(st, candidate) ==
    LET code == Upper(candidate.code) IN
    IF MemIndex(st, code) # 0
    THEN [s |-> st, r |-> FALSE]
    ELSE [s |-> Append(st, [key |-> code, rec |-> candidate]), r |-> TRUE]

RECURSIVE Mem_bulk_add(_, _)
Mem_bulk_add(st, candidates) ==
    IF candidates = <<>>
    THEN [s |-> st, r |-> 0]
    ELSE LET first == Mem_add_candidate(st, Head(candidates))
             rest == Mem_bulk_add(first.s, Tail(candidates))
         IN [s |-> rest.s, r |-> (IF first.r THEN 1 ELSE 0) + rest.r]

Mem_mark_tried(st, code, tried) ==
    LET i == MemIndex(st, Upper(code)) IN
    IF i = 0
    THEN [s |-> st, r |-> FALSE]
    ELSE [s |-> [st EXCEPT ![i].rec.tried = IF tried THEN 1 ELSE 0], r |-> TRUE]

\* a toggle that hides and never shows again
Mem_toggle_hidden_hides(st, code) ==
    LET i == MemIndex(st, Upper(code)) IN
    IF i = 0
    THEN [s |-> st, r |-> "None"]
    ELSE [s |-> [st EXCEPT ![i].rec.hidden = 1], r |-> "True"]

\* Optional[bool] result: "True", "False", or "None" when the code is not stored
Mem_toggle_hidden(st, code) ==
    LET i == MemIndex(st, Upper(code)) IN
    IF i = 0
    THEN [s |-> st, r |-> "None"]
    ELSE LET hidden == IF st[i].rec.hidden # 0 THEN 0 ELSE 1 IN
         [s |-> [st EXCEPT ![i].rec.hidden = hidden], r |-> IF hidden # 0 THEN "True" ELSE "False"]

Mem_delete(st, code) ==
    LET i == MemIndex(st, Upper(code)) IN
    IF i # 0
    THEN [s |-> RemoveAt(st, i), r |-> TRUE]
    ELSE [s |-> st, r |-> FALSE]

Mem_exists(st, code) == MemIndex(st, Upper(code)) # 0

\* Discovery times are instants in UTC, written by isoformat(); they are
\* counted here in ticks of a fraction of a second, so that the order of the
\* strings is the order of the ticks.
\* sqlite_repo.py:103  datetime(discovered_at) keeps whole seconds only
TicksPerSecond == 2
datetime(discovered_at) == discovered_at \div TicksPerSecond

\* s[offset : offset + limit] and LIMIT limit OFFSET offset, for offset, limit >= 0
Slice(s, offset, limit) ==
    IF offset >= Len(s) THEN <<>>
    ELSE SubSeq(s, offset + 1, IF offset + limit < Len(s) THEN offset + limit ELSE Len(s))

\* memory_repo.py:61-76  list without q: the records that pass the filters, in
\* the order of the dictionary (source "" is no filter)
Mem_filtered(st, source, include_hidden, include_tried) ==
    LET kept == SelectSeq(st, LAMBDA e :
                    /\ (include_hidden \/ e.rec.hidden = 0)
                    /\ (include_tried \/ e.rec.tried = 0)
                    /\ (source = "" \/ e.rec.source = source))
    IN [i \in DOMAIN kept |-> kept[i].rec]

\* memory_repo.py:77  filtered.sort(key=str(discovered_at), reverse=True): the
\* sort is stable, records with equal keys keep the order they had
Mem_sorted(recs) ==
    LET before(j, i) == \/ recs[j].discovered_at > recs[i].discovered_at
                        \/ recs[j].discovered_at = recs[i].discovered_at /\ j < i
    IN [k \in DOMAIN recs |->
          recs[CHOOSE i \in DOMAIN recs :
                  Cardinality({j \in DOMAIN recs : before(j, i)}) = k - 1]]

Mem_list(st, source, include_hidden, include_tried, offset, limit) ==
    Slice(Mem_sorted(Mem_filtered(st, source, include_hidden, include_tried)), offset, limit)

\* memory_repo.py:80-83  len(self.list(..., offset=0, limit=10_000_000))
Mem_count(st, source, include_hidden, include_tried) ==
    Len(Mem_list(st, source, include_hidden, include_tried, 0, 10000000))

\* memory_repo.py:88-89  self.list(offset=0, limit=limit), with the defaults of list
Mem_get_latest(st, limit) == Mem_list(st, "", FALSE, TRUE, 0, limit)

----------------------------------------------------------------------------
(* SQLiteRepository: code TEXT UNIQUE compares the text as stored (BINARY) *)

SqlIndex(d, code) ==
    IF \E i \in DOMAIN d.rows : d.rows[i].code = code
    THEN CHOOSE i \in DOMAIN d.rows : d.rows[i].code = code
    ELSE 0

\* INSERT OR REPLACE: a row with the same code gives way to the new one
Sql_add_candidate_replace(d, candidate) ==
    LET kept == SelectSeq(d.rows, LAMBDA row : row.code # candidate.code) IN
    [s |-> [rows |-> Append(kept,
                [id |-> d.seq + 1, code |-> candidate.code, source |-> candidate.source,
                 discovered_at |-> candidate.discovered_at,
                 tried |-> candidate.tried, hidden |-> candidate.hidden]),
            seq |-> d.seq + 1],
     r |-> TRUE]

\* INSERT OR IGNORE INTO candidates(...) VALUES (:code, ...): rowcount > 0
Sql_add_candidate(d, candidate) ==
    IF SqlIndex(d, candidate.code) # 0
    THEN [s |-> d, r |-> FALSE]
    ELSE [s |-> [rows |-> Append(d.rows,
                     [id |-> d.seq + 1, code |-> candidate.code, source |-> candidate.source,
                      discovered_at |-> candidate.discovered_at,
                      tried |-> candidate.tried, hidden |-> candidate.hidden]),
                 seq |-> d.seq + 1],
          r |-> TRUE]

RECURSIVE Sql_bulk_add(_, _)
Sql_bulk_add(d, candidates) ==
    IF candidates = <<>>
    THEN [s |-> d, r |-> 0]
    ELSE LET first == Sql_add_candidate(d, Head(candidates))
             rest == Sql_bulk_add(first.s, Tail(candidates))
         IN [s |-> rest.s, r |-> (IF first.r THEN 1 ELSE 0) + rest.r]

\* an update that reports success whatever its rowcount
Sql_mark_tried_always(d, code, tried) ==
    LET i == SqlIndex(d, Upper(code)) IN
    IF i = 0
    THEN [s |-> d, r |-> TRUE]
    ELSE [s |-> [d EXCEPT !.rows[i].tried = IF tried THEN 1 ELSE 0], r |-> TRUE]

Sql_mark_tried(d, code, tried) ==
    LET i == SqlIndex(d, Upper(code)) IN
    IF i = 0
    THEN [s |-> d, r |-> FALSE]
    ELSE [s |-> [d EXCEPT !.rows[i].tried = IF tried THEN 1 ELSE 0], r |-> TRUE]

Sql_toggle_hidden(d, code) ==
    LET i == SqlIndex(d, Upper(code)) IN
    IF i = 0
    THEN [s |-> d, r |-> "None"]
    ELSE LET new_value == IF d.rows[i].hidden # 0 THEN 0 ELSE 1 IN
         [s |-> [d EXCEPT !.rows[i].hidden = new_value], r |-> IF new_value # 0 THEN "True" ELSE "False"]

\* a delete that reports a removal without making one
Sql_delete_keeps_row(d, code) ==
    LET i == SqlIndex(d, Upper(code)) IN
    IF i # 0
    THEN [s |-> d, r |-> TRUE]
    ELSE [s |-> d, r |-> FALSE]

Sql_delete(d, code) ==
    LET i == SqlIndex(d, Upper(code)) IN
    IF i # 0
    THEN [s |-> [d EXCEPT !.rows = RemoveAt(d.rows, i)], r |-> TRUE]
    ELSE [s |-> d, r |-> FALSE]

Sql_exists(d, code) == SqlIndex(d, Upper(code)) # 0

\* SELECT COUNT(*) FROM candidates WHERE <clauses>, without q
Sql_count(d, source, include_hidden, include_tried) ==
    Len(SelectSeq(d.rows, LAMBDA row :
        /\ (include_hidden \/ row.hidden = 0)
        /\ (include_tried \/ row.tried = 0)
        /\ (source = "" \/ row.source = source)))

Sql_row_to_dict(row) ==
    [code |-> row.code, source |-> row.source, discovered_at |-> row.discovered_at,
     tried |-> row.tried, hidden |-> row.hidden]

\* ORDER BY datetime(discovered_at) DESC, rowid DESC
Sql_ordered(rows) ==
    LET before(j, i) == \/ datetime(rows[j].discovered_at) > datetime(rows[i].discovered_at)
                        \/ /\ datetime(rows[j].discovered_at) = datetime(rows[i].discovered_at)
                           /\ rows[j].id > rows[i].id
    IN [k \in DOMAIN rows |->
          rows[CHOOSE i \in DOMAIN rows :
                  Cardinality({j \in DOMAIN rows : before(j, i)}) = k - 1]]

\* sqlite_repo.py:89-108  list without q
Sql_list(d, source, include_hidden, include_tried, offset, limit) ==
    LET rows == SelectSeq(d.rows, LAMBDA row :
                    /\ (include_hidden \/ row.hidden = 0)
                    /\ (include_tried \/ row.tried = 0)
                    /\ (source = "" \/ row.source = source))
        page == Slice(Sql_ordered(rows), offset, limit)
    IN [i \in DOMAIN page |-> Sql_row_to_dict(page[i])]

\* sqlite_repo.py:133-138  every row, newest first, LIMIT limit
Sql_get_latest(d, limit) ==
    LET page == Slice(Sql_ordered(d.rows), 0, limit)
    IN [i \in DOMAIN page |-> Sql_row_to_dict(page[i])]

----------------------------------------------------------------------------
(* Repository calls, applied to both backends with the same arguments *)

NoCall == [op |-> "none", code |-> <<>>, cand |-> NoRecord, mem |-> FALSE, sql |-> FALSE]

Callers == 1..NumCallers

ConcIdle ==
    /\ lock = 0
    /\ cpc = [t \in Callers |-> "idle"]
    /\ carg = [t \in Callers |-> NoRecord]
    /\ cfound = [t \in Callers |-> FALSE]
    /\ cret = [t \in Callers |-> "none"]
    /\ raced = FALSE

\* the codes the extractor hands to process_items (upper-cased by extract)
HunterCodes == { <<"A", "1">>, <<"B", "2">> }

HunterIdle ==
    /\ hpc = "idle"
    /\ pending = <<>>
    /\ cur = NoRecord
    /\ polls = 0
    /\ inserted = [c \in HunterCodes |-> 0]
    /\ published = [c \in HunterCodes |-> 0]
    /\ notified = [c \in HunterCodes |-> 0]

Sources == 1..NumSources

SchedIdle ==
    /\ edition = "app"
    /\ interval = 60
    /\ backoff = [a \in Sources |-> 0]
    /\ next_run = [a \in Sources |-> 0]
    /\ ppc = "top"
    /\ idx = 1
    /\ stop = FALSE
    /\ ev = [kind |-> "none", a |-> 0]
    /\ nfail = [a \in Sources |-> 0]
    /\ plain = [a \in Sources |-> TRUE]
    /\ dueAtTick = {}
    /\ ran = {}
    /\ seen = {}
    /\ enabled = [a \in Sources |-> TRUE]
    /\ failure_count = [a \in Sources |-> 0]
    /\ cooldown_until = [a \in Sources |-> None]
    /\ disabled_reason = [a \in Sources |-> "None"]
    /\ disabled_set = {}
    /\ elapsed = 0

\* no source has been polled yet
NoPoll == [nets |-> <<>>, stores |-> <<>>]
NoOutcome == [requests |-> 0, raised |-> "none", items |-> 0, handled |-> 0, published |-> 0]
FetchIdle ==
    /\ fadapter = "none"
    /\ fin = NoPoll
    /\ fout = NoOutcome

\* bound: the SSE clients that connect
NumSubscribers == 2
\* bound: the calls of publish
MaxPublishes == 2

Subscribers == 1..NumSubscribers
\* a subscriber that has not connected has no queue
NoQueue == [maxsize |-> -1, items |-> <<>>]

\* app.py:158-160  EventBroadcaster.__init__: no client, nothing published
BroadcastIdle ==
    /\ clients = <<>>
    /\ queues = [s \in Subscribers |-> NoQueue]
    /\ bpc = "idle"
    /\ bsnap = <<>>
    /\ bi = 0
    /\ payload = 0
    /\ atcall = {}
    /\ got = [s \in Subscribers |-> {}]

\* app.py:315-320  the extractor with the default settings, before any text
ExtractIdle ==
    /\ settings = [min_len |-> 5, max_len |-> 8, denylist |-> {}]
    /\ text = <<>>
    /\ matches = <<>>
    /\ xpc = "idle"

\* bound: the calls of _start_background_thread
NumStarters == 2
\* bound: the threads inside _process_entries
NumWorkers == 2

Starters == 1..NumStarters
\* the poller threads: 0 is app.py's polling_thread, t > 0 the thread that
\* the call t of _start_background_thread starts
Threads == 0..NumStarters
Workers == 1..NumWorkers
\* the tokens _process_entries gets from _extract_tokens
Tokens == {"T1", "T2"}

\* sora_invite.py:138-149,183  state = AppState(): no worker thread, the lock
\* free, nothing seen; app.py before line 487: no polling thread
ThreadIdle ==
    /\ polling_thread = None
    /\ worker_thread = None
    /\ alive = {}
    /\ slock = 0
    /\ spc = [c \in Starters |-> "idle"]
    /\ pos = [t \in Threads |-> [src |-> 0, phase |-> "idle"]]
    /\ seen_codes = {}
    /\ state_candidates = <<>>
    /\ epc = [w \in Workers |-> "idle"]
    /\ etokens = [w \in Workers |-> <<>>]
    /\ ecur = [w \in Workers |-> "none"]
    /\ efound = [w \in Workers |-> FALSE]
    /\ appended = [k \in Tokens |-> 0]
    /\ ecalls = 0

MoreIdle == FetchIdle /\ BroadcastIdle /\ ExtractIdle /\ ThreadIdle

RepoInit ==
    /\ MoreIdle
    /\ store = <<>>
    /\ db = [rows |-> <<>>, seq |-> 0]
    /\ last = NoCall
    /\ backend = "memory"
    /\ ConcIdle
    /\ HunterIdle
    /\ SchedIdle

add_candidate(candidate) ==
    /\ db.seq < MaxRowId
    /\ LET m == Mem_add_candidate(store, candidate)
           q == Sql_add_candidate(db, candidate)
       IN /\ store' = m.s
          /\ db' = q.s
          /\ last' = [op |-> "add", code |-> candidate.code, cand |-> candidate,
                      mem |-> m.r, sql |-> q.r]
          /\ UNCHANGED nonRepoVars

bulk_add(candidates) ==
    /\ db.seq + Len(candidates) <= MaxRowId
    /\ LET m == Mem_bulk_add(store, candidates)
           q == Sql_bulk_add(db, candidates)
       IN /\ store' = m.s
          /\ db' = q.s
          /\ last' = [op |-> "bulk", code |-> <<>>, cand |-> NoRecord,
                      mem |-> m.r, sql |-> q.r]
          /\ UNCHANGED nonRepoVars

mark_tried(code, tried) ==
    LET m == Mem_mark_tried(store, code, tried)
        q == Sql_mark_tried(db, code, tried)
    IN /\ store' = m.s
       /\ db' = q.s
       /\ last' = [op |-> "tried", code |-> code, cand |-> NoRecord, mem |-> m.r, sql |-> q.r]
       /\ UNCHANGED nonRepoVars

toggle_hidden(code) ==
    LET m == Mem_toggle_hidden(store, code)
        q == Sql_toggle_hidden(db, code)
    IN /\ store' = m.s
       /\ db' = q.s
       /\ last' = [op |-> "hide", code |-> code, cand |-> NoRecord, mem |-> m.r, sql |-> q.r]
       /\ UNCHANGED nonRepoVars

delete(code) ==
    LET m == Mem_delete(store, code)
        q == Sql_delete(db, code)
    IN /\ store' = m.s
       /\ db' = q.s
       /\ last' = [op |-> "delete", code |-> code, cand |-> NoRecord, mem |-> m.r, sql |-> q.r]
       /\ UNCHANGED nonRepoVars

\* bulk_add is called with lists of one or two candidates
BulkInputs ==
    { <<c>> : c \in CandidateInputs } \cup
    { <<c1, c2>> : c1 \in {c \in CandidateInputs : c.discovered_at = 1},
                   c2 \in {c \in CandidateInputs : c.discovered_at = MaxStamp} }

RepoNext ==
    \/ \E candidate \in CandidateInputs : add_candidate(candidate)
    \/ \E candidates \in BulkInputs : bulk_add(candidates)
    \/ \E code \in CodeInputs, tried \in BOOLEAN : mark_tried(code, tried)
    \/ \E code \in CodeInputs : toggle_hidden(code)
    \/ \E code \in CodeInputs : delete(code)

SpecRepo == RepoInit /\ [][RepoNext]_vars

SqlGet(d, code) ==
    IF SqlIndex(d, code) = 0 THEN NoRecord ELSE Sql_row_to_dict(d.rows[SqlIndex(d, code)])

\* C2: in every reachable state of either backend at most one stored record
\* exists per normalized (upper-cased) code.
C2_OneRecordPerNormalizedCode ==
    /\ \A i, j \in DOMAIN store :
          Upper(store[i].rec.code) = Upper(store[j].rec.code) => i = j
    /\ \A i, j \in DOMAIN db.rows :
          Upper(db.rows[i].code) = Upper(db.rows[j].code) => i = j

\* C3: add_candidate of a code of which no spelling is stored returns true; a
\* second add_candidate with the same code right after a first one that
\* returned true returns false, and the stored record is the first call's
\* candidate, in both backends.
C3_AddTwiceKeepsFirst ==
    [][ /\ (last'.op = "add" /\ ~Mem_exists(store, last'.code)
                              /\ \A i \in DOMAIN db.rows : Upper(db.rows[i].code) # Upper(last'.code))
            => (last'.mem /\ last'.sql)
        /\ (last.op = "add" /\ last'.op = "add" /\ last'.code = last.code)
            => /\ last.mem => (~last'.mem /\ MemGet(store', Upper(last.code)) = last.cand)
               /\ last.sql => (~last'.sql /\ SqlGet(db', last.code) = last.cand)
      ]_vars

\* a second add_candidate of a stored code, carrying other data, has returned
\* false and the record still holds the older data
C3_Witness ==
    /\ last.op = "add" /\ ~last.mem /\ ~last.sql
    /\ MemGet(store, Upper(last.code)).code = last.code
    /\ MemGet(store, Upper(last.code)).discovered_at # last.cand.discovered_at
    /\ SqlGet(db, last.code).discovered_at # last.cand.discovered_at
    /\ SqlGet(db, last.code).code = last.code

\* bool(x) of a 0/1 column, as the Optional[bool] results are written
Bool(x) == IF x # 0 THEN "True" ELSE "False"

\* C19: toggle_hidden of a code that the backend holds (exists(code) is true:
\* the record is stored under the upper-cased code that every lookup uses)
\* inverts the 0/1 hidden flag of that record, changes nothing else and
\* returns the new value, so from an unhidden record it returns true; a second
\* toggle_hidden of the same code right after it returns the opposite value
\* and puts the flag back; in both backends.
C19_ToggleHiddenFlips ==
    [][ last'.op = "hide" =>
        LET code == last'.code
            i == MemIndex(store, Upper(code))
            j == SqlIndex(db, Upper(code))
        IN  /\ Mem_exists(store, code) =>
                  /\ store[i].rec.hidden \in {0, 1}
                  /\ store' = [store EXCEPT ![i].rec.hidden = 1 - @]
                  /\ last'.mem = Bool(store'[i].rec.hidden)
                  /\ (last.op = "hide" /\ last.code = code)
                        => last'.mem # last.mem /\ last.mem = Bool(store[i].rec.hidden)
            /\ Sql_exists(db, code) =>
                  /\ db.rows[j].hidden \in {0, 1}
                  /\ db' = [db EXCEPT !.rows[j].hidden = 1 - @]
                  /\ last'.sql = Bool(db'.rows[j].hidden)
                  /\ (last.op = "hide" /\ last.code = code)
                        => last'.sql # last.sql /\ last.sql = Bool(db.rows[j].hidden)
      ]_vars

\* a toggle_hidden has returned false in both backends: the record had been
\* hidden by an earlier toggle_hidden and is shown again
C19_Witness ==
    /\ last.op = "hide"
    /\ last.mem = "False" /\ last.sql = "False"
    /\ MemGet(store, Upper(last.code)).hidden = 0
    /\ SqlGet(db, Upper(last.code)).hidden = 0
    /\ Mem_exists(store, last.code) /\ Sql_exists(db, last.code)

\* C20: delete of a code that the backend holds (exists(code) is true) returns
\* true and removes that record and no other: afterwards exists(code) is
\* false, count over all records is one less and count() (hidden records
\* left out) is one less exactly when the record was not hidden; a delete of
\* the same code right after a delete returns false and removes nothing; in
\* both backends.
C20_DeleteOnce ==
    [][ last'.op = "delete" =>
        LET code == last'.code
            i == MemIndex(store, Upper(code))
            j == SqlIndex(db, Upper(code))
        IN  /\ Mem_exists(store, code) =>
                  /\ last'.mem
                  /\ store' = RemoveAt(store, i)
                  /\ ~Mem_exists(store', code)
                  /\ Mem_count(store', "", TRUE, TRUE) = Mem_count(store, "", TRUE, TRUE) - 1
                  /\ Mem_count(store', "", FALSE, TRUE) =
                        Mem_count(store, "", FALSE, TRUE) - (IF store[i].rec.hidden = 0 THEN 1 ELSE 0)
            /\ Sql_exists(db, code) =>
                  /\ last'.sql
                  /\ db'.rows = RemoveAt(db.rows, j)
                  /\ ~Sql_exists(db', code)
                  /\ Sql_count(db', "", TRUE, TRUE) = Sql_count(db, "", TRUE, TRUE) - 1
                  /\ Sql_count(db', "", FALSE, TRUE) =
                        Sql_count(db, "", FALSE, TRUE) - (IF db.rows[j].hidden = 0 THEN 1 ELSE 0)
            /\ (last.op = "delete" /\ last.code = code) =>
                  /\ ~last'.mem /\ store' = store
                  /\ ~last'.sql /\ db' = db
      ]_vars

\* a delete has returned true in both backends and the code is gone, while a
\* record of another code is still stored and counted
C20_Witness ==
    /\ last.op = "delete"
    /\ last.mem /\ last.sql
    /\ ~Mem_exists(store, last.code) /\ ~Sql_exists(db, last.code)
    /\ Mem_count(store, "", TRUE, TRUE) = 1
    /\ Sql_count(db, "", TRUE, TRUE) = 1

\* C21: mark_tried, toggle_hidden and delete of a code that the backend does
\* not hold (exists(code) is false) return false, None and false and leave
\* every stored record as it was, in both backends.  (The operators are total:
\* a dictionary get, an UPDATE, a SELECT and a DELETE that match nothing do not
\* raise.)
C21_UnknownCodeNotFound ==
    [][ last'.op \in {"tried", "hide", "delete"} =>
        LET code == last'.code
            notfound == IF last'.op = "hide" THEN "None" ELSE FALSE
        IN  /\ ~Mem_exists(store, code) => last'.mem = notfound /\ store' = store
            /\ ~Sql_exists(db, code) => last'.sql = notfound /\ db' = db
      ]_vars

\* a toggle_hidden of a code that is not stored has returned None in both
\* backends while a record of another code is stored
C21_Witness ==
    /\ last.op = "hide"
    /\ last.mem = "None" /\ last.sql = "None"
    /\ store # <<>> /\ db.rows # <<>>
    /\ ~Mem_exists(store, last.code) /\ ~Sql_exists(db, last.code)

----------------------------------------------------------------------------
(* The read side of the repository: list, count, exists, get_latest and    *)
(* count_since over the records that the write calls have left              *)

\* discovery times run over the ticks 1..MaxTick
MaxTick == 3
Ticks == 1..MaxTick

\* the candidates stored for the queries: upper-case codes from two sources
QueryCandidates ==
    [code : HunterCodes, source : SourceNames, discovered_at : Ticks, tried : {0}, hidden : {0}]

\* the methods that CandidateRepository declares and both backends define
RepositoryMethods ==
    {"add_candidate", "bulk_add", "mark_tried", "toggle_hidden", "delete",
     "list", "count", "exists", "get_latest"}

\* repository.<name>: the bound method, or AttributeError for a name that no class defines
getattr(methods, name) == IF name \in methods THEN "method" ELSE "AttributeError"

\* app.py:510-511, tests/test_repo.py:48  repository.count_since(timestamp)
count_since(timestamp) ==
    /\ last' = [op |-> "since", code |-> <<>>, cand |-> NoRecord,
                mem |-> getattr(RepositoryMethods, "count_since"),
                sql |-> getattr(RepositoryMethods, "count_since")]
    /\ UNCHANGED <<store, db>>
    /\ UNCHANGED nonRepoVars

QueryNext ==
    \/ \E candidate \in QueryCandidates : add_candidate(candidate)
    \/ \E code \in HunterCodes : mark_tried(code, TRUE)
    \/ \E code \in HunterCodes : toggle_hidden(code)
    \/ \E code \in HunterCodes : delete(code)
    \/ \E timestamp \in Ticks : count_since(timestamp)

SpecQuery == RepoInit /\ [][QueryNext]_vars

\* the arguments of list and count: source filter, include_hidden, include_tried
SourceFilters == SourceNames \cup {""}
\* offset and limit of a page; get_latest limits
Offsets == 0..1
Limits == 1..MaxRowId

\* a listing runs from the newest discovery time to the oldest
NewestFirst(recs) ==
    \A k \in DOMAIN recs : k + 1 \in DOMAIN recs => recs[k].discovered_at >= recs[k + 1].discovered_at

\* C24: the two backends, given the same calls, have returned the same result
\* from the last write call and return the same list, count, exists and
\* get_latest for the same arguments.
C24_BackendsAgree ==
    /\ last.mem = last.sql
    /\ \A c \in HunterCodes : Mem_exists(store, c) = Sql_exists(db, c)
    /\ \A src \in SourceFilters, ih \in BOOLEAN, it \in BOOLEAN :
          /\ Mem_count(store, src, ih, it) = Sql_count(db, src, ih, it)
          /\ \A offset \in Offsets, limit \in Limits :
                Mem_list(store, src, ih, it, offset, limit) = Sql_list(db, src, ih, it, offset, limit)
    /\ \A limit \in Limits : Mem_get_latest(store, limit) = Sql_get_latest(db, limit)

\* C25: in both backends list returns the records that match, newest discovery
\* time first (records of one discovery time in an order fixed by the
\* backend).
C25_ListNewestFirst ==
    \A src \in SourceFilters, ih \in BOOLEAN, it \in BOOLEAN :
        /\ NewestFirst(Mem_list(store, src, ih, it, 0, MaxRowId))
        /\ NewestFirst(Sql_list(db, src, ih, it, 0, MaxRowId))

\* C26: in both backends get_latest(limit) returns limit records, or all of
\* them when fewer are stored, hidden and tried ones included, newest first.
C26_LatestUnfiltered ==
    \A limit \in Limits :
        LET want(n) == IF n < limit THEN n ELSE limit IN
        /\ Len(Mem_get_latest(store, limit)) = want(Len(store))
        /\ NewestFirst(Mem_get_latest(store, limit))
        /\ Len(Sql_get_latest(db, limit)) = want(Len(db.rows))

\* C27: count_since(timestamp) returns a number, the number of stored records
\* discovered at or after the timestamp, in both backends.
C27_CountSinceCounts ==
    last.op = "since" =>
        /\ last.mem # "AttributeError"
        /\ last.sql # "AttributeError"

----------------------------------------------------------------------------
(* Concurrent callers of add_candidate, one statement at a time *)

\* a lock that never excludes anybody
LockFree_never_held(l) == TRUE

\* threading.Lock: `with self._lock` enters only when nobody holds the lock
LockFree(l) == l = 0

\* self._store[code] = dict(candidate)
Mem_store_assign(st, key, rec) ==
    IF MemIndex(st, key) # 0
    THEN [st EXCEPT ![MemIndex(st, key)].rec = rec]
    ELSE Append(st, [key |-> key, rec |-> rec])

ConcInit ==
    /\ MoreIdle
    /\ store = <<>>
    /\ db = [rows |-> <<>>, seq |-> 0]
    /\ last = NoCall
    /\ backend \in {"memory", "sqlite"}
    /\ ConcIdle
    /\ HunterIdle
    /\ SchedIdle

\* a thread enters add_candidate(candidate)
CallAdd(t, candidate) ==
    /\ cpc[t] = "idle"
    /\ cpc' = [cpc EXCEPT ![t] = IF backend = "memory" THEN "acquire" ELSE "execute"]
    /\ carg' = [carg EXCEPT ![t] = candidate]
    /\ raced' = (raced \/ \E u \in Callers \ {t} :
                              cpc[u] \notin {"idle", "done"} /\ carg[u].code = candidate.code)
    /\ UNCHANGED <<store, db, last, backend, lock, cfound, cret>>
    /\ UNCHANGED nonConcVars

\* memory_repo.py:18  with self._lock:
MemAcquire(t) ==
    /\ cpc[t] = "acquire"
    /\ LockFree(lock)
    /\ lock' = t
    /\ cpc' = [cpc EXCEPT ![t] = "check"]
    /\ UNCHANGED <<store, db, last, backend, carg, cfound, cret, raced>>
    /\ UNCHANGED nonConcVars

\* memory_repo.py:19-20  if code in self._store: return False
MemCheck(t) ==
    /\ cpc[t] = "check"
    /\ LET found == MemIndex(store, Upper(carg[t].code)) # 0 IN
       /\ cfound' = [cfound EXCEPT ![t] = found]
       /\ IF found
          THEN /\ cret' = [cret EXCEPT ![t] = "False"]
               /\ cpc' = [cpc EXCEPT ![t] = "done"]
               /\ lock' = IF lock = t THEN 0 ELSE lock
          ELSE /\ cpc' = [cpc EXCEPT ![t] = "insert"]
               /\ UNCHANGED <<cret, lock>>
    /\ UNCHANGED <<store, db, last, backend, carg, raced>>
    /\ UNCHANGED nonConcVars

\* memory_repo.py:21-22  self._store[code] = dict(candidate); return True
MemInsert(t) ==
    /\ cpc[t] = "insert"
    /\ store' = Mem_store_assign(store, Upper(carg[t].code), carg[t])
    /\ lock' = IF lock = t THEN 0 ELSE lock
    /\ cret' = [cret EXCEPT ![t] = "True"]
    /\ cpc' = [cpc EXCEPT ![t] = "done"]
    /\ UNCHANGED <<db, last, backend, carg, cfound, raced>>
    /\ UNCHANGED nonConcVars

\* sqlite_repo.py:42-49  the INSERT OR IGNORE statement (one SQLite statement)
SqlExecute(t) ==
    /\ cpc[t] = "execute"
    /\ LET q == Sql_add_candidate(db, carg[t]) IN
       /\ db' = q.s
       /\ cfound' = [cfound EXCEPT ![t] = ~q.r]
    /\ cpc' = [cpc EXCEPT ![t] = "commit"]
    /\ UNCHANGED <<store, last, backend, lock, carg, cret, raced>>
    /\ UNCHANGED nonConcVars

\* sqlite_repo.py:42,50  leaving `with self.conn` commits; return cursor.rowcount > 0
SqlCommit(t) ==
    /\ cpc[t] = "commit"
    /\ cret' = [cret EXCEPT ![t] = IF cfound[t] THEN "False" ELSE "True"]
    /\ cpc' = [cpc EXCEPT ![t] = "done"]
    /\ UNCHANGED <<store, db, last, backend, lock, carg, cfound, raced>>
    /\ UNCHANGED nonConcVars

ConcNext ==
    \/ \E t \in Callers, candidate \in CandidateInputs : CallAdd(t, candidate)
    \/ \E t \in Callers : MemAcquire(t)
    \/ \E t \in Callers : MemCheck(t)
    \/ \E t \in Callers : MemInsert(t)
    \/ \E t \in Callers : SqlExecute(t)
    \/ \E t \in Callers : SqlCommit(t)

SpecConc == ConcInit /\ [][ConcNext]_vars

----------------------------------------------------------------------------
(* Concurrent callers of toggle_hidden, one statement at a time.  The       *)
(* in-memory backend runs the whole body under self._lock; the SQLite       *)
(* backend shares one connection (check_same_thread=False) between the      *)
(* request threads and runs a SELECT and then an UPDATE with nothing that   *)
(* keeps another thread's statements from coming in between.                *)

\* the records stored before the calls: one per code, not hidden
ToggleStored ==
    << [code |-> <<"A", "1">>, source |-> "reddit_search", discovered_at |-> 1, tried |-> 0, hidden |-> 0],
       [code |-> <<"B", "2">>, source |-> "reddit_search", discovered_at |-> 1, tried |-> 0, hidden |-> 0] >>

ToggleInit ==
    /\ MoreIdle
    /\ store = Mem_bulk_add(<<>>, ToggleStored).s
    /\ db = Sql_bulk_add([rows |-> <<>>, seq |-> 0], ToggleStored).s
    /\ last = NoCall
    /\ backend \in {"memory", "sqlite"}
    /\ ConcIdle
    /\ HunterIdle
    /\ SchedIdle

\* a request thread enters toggle_hidden(code)
CallToggle(t, code) ==
    /\ cpc[t] = "idle"
    /\ cpc' = [cpc EXCEPT ![t] = IF backend = "memory" THEN "tog_acquire" ELSE "tog_select"]
    /\ carg' = [carg EXCEPT ![t] = [NoRecord EXCEPT !.code = code]]
    /\ raced' = (raced \/ \E u \in Callers \ {t} :
                              cpc[u] \notin {"idle", "done"} /\ Upper(carg[u].code) = Upper(code))
    /\ UNCHANGED <<store, db, last, backend, lock, cfound, cret>>
    /\ UNCHANGED nonConcVars

\* memory_repo.py:42  with self._lock:
MemToggleAcquire(t) ==
    /\ cpc[t] = "tog_acquire"
    /\ LockFree(lock)
    /\ lock' = t
    /\ cpc' = [cpc EXCEPT ![t] = "tog_body"]
    /\ UNCHANGED <<store, db, last, backend, carg, cfound, cret, raced>>
    /\ UNCHANGED nonConcVars

\* memory_repo.py:43-49  the body under the lock, and the release
MemToggleBody(t) ==
    /\ cpc[t] = "tog_body"
    /\ LET m == Mem_toggle_hidden(store, carg[t].code) IN
       /\ store' = m.s
       /\ cret' = [cret EXCEPT ![t] = m.r]
    /\ lock' = IF lock = t THEN 0 ELSE lock
    /\ cpc' = [cpc EXCEPT ![t] = "done"]
    /\ UNCHANGED <<db, last, backend, carg, cfound, raced>>
    /\ UNCHANGED nonConcVars

\* sqlite_repo.py:73-79  SELECT hidden ... ; row = cursor.fetchone(); return None without a row
SqlToggleSelect(t) ==
    /\ cpc[t] = "tog_select"
    /\ LET j == SqlIndex(db, Upper(carg[t].code)) IN
       IF j = 0
       THEN /\ cret' = [cret EXCEPT ![t] = "None"]
            /\ cpc' = [cpc EXCEPT ![t] = "done"]
            /\ UNCHANGED cfound
       ELSE /\ cfound' = [cfound EXCEPT ![t] = db.rows[j].hidden # 0]
            /\ cpc' = [cpc EXCEPT ![t] = "tog_update"]
            /\ UNCHANGED cret
    /\ UNCHANGED <<store, db, last, backend, lock, carg, raced>>
    /\ UNCHANGED nonConcVars

\* sqlite_repo.py:80-82  new_value from the row that was read; UPDATE; commit; return bool(new_value)
SqlToggleUpdate(t) ==
    /\ cpc[t] = "tog_update"
    /\ LET new_value == IF cfound[t] THEN 0 ELSE 1
           j == SqlIndex(db, Upper(carg[t].code))
       IN /\ db' = IF j = 0 THEN db ELSE [db EXCEPT !.rows[j].hidden = new_value]
          /\ cret' = [cret EXCEPT ![t] = Bool(new_value)]
    /\ cpc' = [cpc EXCEPT ![t] = "done"]
    /\ UNCHANGED <<store, last, backend, lock, carg, cfound, raced>>
    /\ UNCHANGED nonConcVars

ToggleNext ==
    \/ \E t \in Callers, code \in CodeInputs : CallToggle(t, code)
    \/ \E t \in Callers : MemToggleAcquire(t)
    \/ \E t \in Callers : MemToggleBody(t)
    \/ \E t \in Callers : SqlToggleSelect(t)
    \/ \E t \in Callers : SqlToggleUpdate(t)

SpecToggle == ToggleInit /\ [][ToggleNext]_vars

\* the calls of toggle_hidden on a code that have returned, and those that returned True
Returned(code) == {t \in Callers : cpc[t] = "done" /\ Upper(carg[t].code) = code}
ReturnedTrue(code) == {t \in Returned(code) : cret[t] = "True"}

\* the hidden flag of the record of a code in the backend in use
HiddenNow(code) ==
    IF backend = "memory" THEN MemGet(store, code).hidden ELSE SqlGet(db, code).hidden

\* C22: when no call is in flight, the hidden flag of a stored record that
\* started unhidden is the flag flipped once per call that returned (k calls:
\* k modulo 2), and the calls returned the values they wrote one after the
\* other (true for every odd one: half of k rounded up), whichever backend is
\* in use.
C22_ConcurrentTogglesAllCount ==
    (\A t \in Callers : cpc[t] \in {"idle", "done"}) =>
        \A i \in DOMAIN ToggleStored :
            LET code == ToggleStored[i].code
                k == Cardinality(Returned(code))
            IN  /\ HiddenNow(code) = k % 2
                /\ Cardinality(ReturnedTrue(code)) = (k + 1) \div 2

----------------------------------------------------------------------------
(* The hunter: process_items of the poller thread, one call at a time,     *)
(* interleaved with the API handlers that mutate the repository            *)

\* largest number of fetches whose items are processed
MaxPolls == 2
\* largest number of codes extracted from the items of one fetch
MaxFound == 1

\* the code sequences extract() yields over the items of one fetch (a code
\* may occur in several items, or several times in one item)
FoundInputs ==
    UNION { [1..n -> HunterCodes] : n \in 0..MaxFound }

\* app.py:402-415
build_candidate_record(code, source, now) ==
    [code |-> Upper(code), source |-> source, discovered_at |-> now, tried |-> 0, hidden |-> 0]

\* the repository created by create_repository, whichever backend it is
Repo_add_candidate(candidate) ==
    IF backend = "memory" THEN Mem_add_candidate(store, candidate)
    ELSE Sql_add_candidate(db, candidate)
Repo_mark_tried(code, tried) ==
    IF backend = "memory" THEN Mem_mark_tried(store, code, tried)
    ELSE Sql_mark_tried(db, code, tried)
Repo_toggle_hidden(code) ==
    IF backend = "memory" THEN Mem_toggle_hidden(store, code)
    ELSE Sql_toggle_hidden(db, code)
Repo_delete(code) ==
    IF backend = "memory" THEN Mem_delete(store, code)
    ELSE Sql_delete(db, code)
Repo_exists(code) ==
    IF backend = "memory" THEN Mem_exists(store, code) ELSE Sql_exists(db, code)

RepoBecomes(result) ==
    /\ store' = IF backend = "memory" THEN result.s ELSE store
    /\ db' = IF backend = "memory" THEN db ELSE result.s

\* a process_items that publishes whatever add_candidate returned
PublishIf_always(added) == TRUE

\* app.py:427  if repository.add_candidate(candidate):
PublishIf(added) == added

HunterInit ==
    /\ MoreIdle
    /\ store = <<>>
    /\ db = [rows |-> <<>>, seq |-> 0]
    /\ last = NoCall
    /\ backend \in {"memory", "sqlite"}
    /\ ConcIdle
    /\ HunterIdle
    /\ SchedIdle

\* app.py:454-455  items = adapter.fetch(); process_items(adapter, items) is entered
FetchItems(source, found) ==
    /\ hpc = "idle"
    /\ polls < MaxPolls
    /\ polls' = polls + 1
    /\ pending' = [i \in DOMAIN found |-> [source |-> source, code |-> found[i]]]
    /\ hpc' = "loop"
    /\ UNCHANGED <<store, db, last, concVars, schedVars, moreVars, cur, inserted, published, notified>>

\* app.py:425-428  the next code: build the record and offer it to the repository
OfferCandidate ==
    /\ hpc = "loop"
    /\ pending # <<>>
    /\ LET candidate == build_candidate_record(Head(pending).code, Head(pending).source, polls)
           result == Repo_add_candidate(candidate)
       IN /\ RepoBecomes(result)
          /\ cur' = candidate
          /\ pending' = Tail(pending)
          /\ inserted' = IF result.r
                         THEN [inserted EXCEPT ![candidate.code] = @ + 1]
                         ELSE inserted
          /\ hpc' = IF PublishIf(result.r) THEN "publish" ELSE "loop"
    /\ UNCHANGED <<last, concVars, schedVars, moreVars, polls, published, notified>>

\* app.py:429  broadcaster.publish(candidate)
Publish ==
    /\ hpc = "publish"
    /\ published' = [published EXCEPT ![cur.code] = @ + 1]
    /\ hpc' = "notify"
    /\ UNCHANGED <<store, db, last, concVars, schedVars, moreVars, pending, cur, polls, inserted, notified>>

\* app.py:430  notifier.notify(candidate)
Notify ==
    /\ hpc = "notify"
    /\ notified' = [notified EXCEPT ![cur.code] = @ + 1]
    /\ hpc' = "loop"
    /\ UNCHANGED <<store, db, last, concVars, schedVars, moreVars, pending, cur, polls, inserted, published>>

\* app.py:431  return inserted
ProcessDone ==
    /\ hpc = "loop"
    /\ pending = <<>>
    /\ hpc' = "idle"
    /\ UNCHANGED <<store, db, last, concVars, schedVars, moreVars, pending, cur, polls, inserted, published, notified>>

\* app.py:555-558
api_mark_tried(code) ==
    /\ RepoBecomes(Repo_mark_tried(code, TRUE))
    /\ UNCHANGED <<last, concVars, hunterVars, schedVars, moreVars>>

\* app.py:561-566
api_toggle_hidden(code) ==
    /\ RepoBecomes(Repo_toggle_hidden(code))
    /\ UNCHANGED <<last, concVars, hunterVars, schedVars, moreVars>>

\* app.py:569-574
api_delete(code) ==
    /\ RepoBecomes(Repo_delete(code))
    /\ UNCHANGED <<last, concVars, hunterVars, schedVars, moreVars>>

HunterNext ==
    \/ \E source \in SourceNames, found \in FoundInputs : FetchItems(source, found)
    \/ OfferCandidate
    \/ Publish
    \/ Notify
    \/ ProcessDone
    \/ \E code \in CodeInputs : api_mark_tried(code)
    \/ \E code \in CodeInputs : api_toggle_hidden(code)
    \/ \E code \in CodeInputs : api_delete(code)

SpecHunter == HunterInit /\ [][HunterNext]_vars

\* C1: each distinct code is passed to broadcaster.publish exactly once in
\* total: never more than once, and once when the processing of the fetches
\* that found it is over.
C1_PublishedExactlyOnce ==
    \A c \in HunterCodes :
        /\ published[c] <= 1
        /\ (hpc = "idle" /\ inserted[c] >= 1) => published[c] = 1

\* C5: process_items calls publish and notify for a candidate if and only if
\* add_candidate returned true for it, once each, the insertion first, then
\* publish, then notify.
C5_PublishNotifyIffInserted ==
    \A c \in HunterCodes :
        /\ notified[c] <= published[c]
        /\ published[c] <= inserted[c]
        /\ inserted[c] <= notified[c] + 1
        /\ (hpc \in {"idle", "loop"} \/ cur.code # c)
              => (published[c] = inserted[c] /\ notified[c] = inserted[c])
        /\ (hpc = "publish" /\ cur.code = c)
              => (published[c] = inserted[c] - 1 /\ notified[c] = inserted[c] - 1)
        /\ (hpc = "notify" /\ cur.code = c)
              => (published[c] = inserted[c] /\ notified[c] = inserted[c] - 1)

\* a fetch has been processed in which one code was inserted, published and
\* notified, and another offer of a stored code was turned down without either
C5_Witness ==
    /\ hpc = "idle"
    /\ polls >= 2
    /\ \E c \in HunterCodes : inserted[c] = 1 /\ published[c] = 1 /\ notified[c] = 1
                               /\ Repo_exists(c) /\ cur.code = c /\ cur.discovered_at = polls
                               /\ \E i \in DOMAIN store : store[i].rec.discovered_at < polls

\* the record the repository in use holds for a code (NoRecord when it holds none)
StoredRecord(c) == IF backend = "memory" THEN MemGet(store, c) ELSE SqlGet(db, c)

\* app.py:418-431, 454-455  a step of the poller thread
PollingStep ==
    \/ \E source \in SourceNames, found \in FoundInputs : FetchItems(source, found)
    \/ OfferCandidate
    \/ Publish
    \/ Notify
    \/ ProcessDone

\* C23: no step of the poller changes a record that is stored, a repeated
\* discovery of its code included; of a stored record the code, source and
\* discovery time never change, tried changes only in mark_tried, hidden only
\* in toggle_hidden, and the record goes away only in delete.
C23_PollingLeavesRecordsAlone ==
    [][ \A c \in HunterCodes :
          StoredRecord(c) # NoRecord =>
            /\ PollingStep => StoredRecord(c)' = StoredRecord(c)
            /\ StoredRecord(c)' = NoRecord => \E code \in CodeInputs : api_delete(code)
            /\ StoredRecord(c)' # NoRecord =>
                  /\ StoredRecord(c)'.code = StoredRecord(c).code
                  /\ StoredRecord(c)'.source = StoredRecord(c).source
                  /\ StoredRecord(c)'.discovered_at = StoredRecord(c).discovered_at
                  /\ StoredRecord(c)'.tried # StoredRecord(c).tried
                        => \E code \in CodeInputs : api_mark_tried(code)
                  /\ StoredRecord(c)'.hidden # StoredRecord(c).hidden
                        => \E code \in CodeInputs : api_toggle_hidden(code)
      ]_vars

\* a code that is stored, tried and hidden has been discovered again at a
\* later time and offered: the record still has its flags and its first time
C23_Witness ==
    /\ hpc = "loop"
    /\ cur # NoRecord
    /\ StoredRecord(cur.code) # NoRecord
    /\ StoredRecord(cur.code).tried = 1
    /\ StoredRecord(cur.code).hidden = 1
    /\ StoredRecord(cur.code).discovered_at < cur.discovered_at

\* the callers that passed the code c, and those that passed another spelling of it
CallersOf(c) == {t \in Callers : cpc[t] # "idle" /\ carg[t].code = c}
OtherSpellings(c) ==
    {t \in Callers : cpc[t] # "idle" /\ carg[t].code # c /\ Upper(carg[t].code) = Upper(c)}

StoredCount(c) ==
    IF backend = "memory"
    THEN Cardinality({i \in DOMAIN store : store[i].rec.code = c})
    ELSE Cardinality({i \in DOMAIN db.rows : db.rows[i].code = c})

\* C4: of the concurrent add_candidate calls with one same, not yet stored
\* code, never more than one has returned true, and once all have returned
\* exactly one has returned true and exactly one record of the code is stored.
C4_ExactlyOneWinner ==
    \A c \in CodeInputs :
        OtherSpellings(c) = {} =>
            /\ Cardinality({t \in CallersOf(c) : cret[t] = "True"}) <= 1
            /\ (CallersOf(c) # {} /\ \A t \in CallersOf(c) : cpc[t] = "done")
                => /\ Cardinality({t \in CallersOf(c) : cret[t] = "True"}) = 1
                   /\ \A t \in CallersOf(c) : cret[t] \in {"True", "False"}
                   /\ StoredCount(c) = 1

\* two callers raced on one code: both were inside add_candidate at once, one
\* has returned true and the other false
C4_Witness ==
    \E t1, t2 \in Callers :
        /\ raced
        /\ t1 # t2
        /\ carg[t1].code = carg[t2].code
        /\ cret[t1] = "True" /\ cret[t2] = "False"
        /\ carg[t1].discovered_at # carg[t2].discovered_at

----------------------------------------------------------------------------
(* The poll loop of app.py: poller() over one AdapterState per adapter.    *)
(* Times are measured from the present: Now is the reading of time.time(), *)
(* and next_run[a] is AdapterState.next_run less that reading.             *)

Max(x, y) == IF x >= y THEN x ELSE y
Min(x, y) == IF x <= y THEN x ELSE y

Now == 0

\* POLL_INTERVAL_SECONDS: below the 5 s floor, the default, above MAX_BACKOFF
Intervals == {2, 60, 400}

\* what adapter.fetch() followed by process_items() comes to: a normal return,
\* requests.HTTPError with status 429, another requests.HTTPError, or any
\* other Exception
FailureKinds == {"http429", "http", "exception"}

\* a loop whose handlers catch requests.HTTPError only
Caught_http_only(kind) == kind \in {"http429", "http"}

\* app.py:464,475  except requests.HTTPError / except Exception
Caught(kind) == kind \in {"http429", "http", "exception"}

\* a handler that takes no status for rate limiting
RateLimited_never(kind) == FALSE

\* app.py:466  rate_limited = response is not None and response.status_code == 429
RateLimited(kind) == kind = "http429"

\* a schedule_next without the 5 s floor
schedule_next_no_floor(b, iv) == Now + (IF b # 0 THEN b ELSE iv)

\* app.py:367-369  AdapterState.schedule_next: the new next_run
schedule_next(b, iv) ==
    LET delay == IF b # 0 THEN b ELSE iv IN
    Now + Max(5, delay)

\* a record_failure without the ceiling
record_failure_no_ceiling(b, base, rate_limited) ==
    IF rate_limited
    THEN Max(IF b # 0 THEN b * 2 ELSE base * 2, base)
    ELSE Max(IF b # 0 THEN b * 2 ELSE base, base)

\* a record_failure that adds the base interval instead of doubling
record_failure_linear(b, base, rate_limited) ==
    Min(MAX_BACKOFF, Max(IF b # 0 THEN b + base ELSE base, base))

\* app.py:375-380  AdapterState.record_failure: the new backoff
record_failure(b, base, rate_limited) ==
    IF rate_limited
    THEN Min(MAX_BACKOFF, Max(IF b # 0 THEN b * 2 ELSE base * 2, base))
    ELSE Min(MAX_BACKOFF, Max(IF b # 0 THEN b * 2 ELSE base, base))

\* a record_success that keeps the backoff
record_success_keep(b) == b

\* app.py:371-372  AdapterState.record_success: the new backoff
record_success(b) == 0

\* app.py:436  states = [AdapterState(adapter, DEFAULT_INTERVAL) for adapter in adapters]
Adapters == DOMAIN backoff

\* a loop that takes every source for due
Due_always(a) == TRUE

\* app.py:450  if now < state.next_run: continue
Due(a) == ~(Now < next_run[a])

CountUp(n) == IF n < FailCap THEN n + 1 ELSE n

\* a loop that never sees the stop event
is_set_never(event) == FALSE

\* app.py:447  stop_event.is_set()
is_set(event) == event

\* app.py:447-448  while not stop_event.is_set(): now = time.time()
LoopTop ==
    /\ edition = "app"
    /\ ppc = "top"
    /\ IF is_set(stop)
       THEN /\ ppc' = "done"
            /\ ev' = [kind |-> "exit", a |-> 0]
            /\ UNCHANGED <<idx, dueAtTick, ran, seen>>
       ELSE /\ ppc' = "for"
            /\ idx' = 1
            /\ dueAtTick' = {a \in Adapters : Due(a)}
            /\ ran' = {}
            /\ seen' = {}
            /\ ev' = [kind |-> "top", a |-> 0]
    /\ UNCHANGED <<edition, interval, backoff, next_run, stop, nfail, plain, proVars>>
    /\ UNCHANGED nonSchedVars

\* app.py:450-451  if now < state.next_run: continue
Skip ==
    /\ edition = "app"
    /\ ppc = "for"
    /\ idx \in Adapters
    /\ ~Due(idx)
    /\ idx' = idx + 1
    /\ seen' = seen \cup {idx}
    /\ ev' = [kind |-> "skip", a |-> idx]
    /\ UNCHANGED <<edition, interval, backoff, next_run, ppc, stop, nfail, plain, dueAtTick, ran, proVars>>
    /\ UNCHANGED nonSchedVars

\* app.py:453-463  fetch and process_items return; state.record_success()
FetchSuccess ==
    /\ edition = "app"
    /\ ppc = "for"
    /\ idx \in Adapters
    /\ Due(idx)
    /\ backoff' = [backoff EXCEPT ![idx] = record_success(@)]
    /\ next_run' = [next_run EXCEPT ![idx] = schedule_next(backoff'[idx], interval)]
    /\ nfail' = [nfail EXCEPT ![idx] = 0]
    /\ plain' = [plain EXCEPT ![idx] = TRUE]
    /\ ran' = ran \cup {idx}
    /\ seen' = seen \cup {idx}
    /\ idx' = idx + 1
    /\ ev' = [kind |-> "success", a |-> idx]
    /\ UNCHANGED <<edition, interval, ppc, stop, dueAtTick, proVars>>
    /\ UNCHANGED nonSchedVars

\* app.py:464-480  fetch or process_items raises; state.record_failure(...)
FetchFailure(kind) ==
    /\ edition = "app"
    /\ ppc = "for"
    /\ idx \in Adapters
    /\ Due(idx)
    /\ ran' = ran \cup {idx}
    /\ seen' = seen \cup {idx}
    /\ IF Caught(kind)
       THEN /\ backoff' = [backoff EXCEPT ![idx] = record_failure(@, interval, RateLimited(kind))]
            /\ next_run' = [next_run EXCEPT ![idx] = schedule_next(backoff'[idx], interval)]
            /\ plain' = [plain EXCEPT ![idx] = @ /\ ~RateLimited(kind)]
            /\ nfail' = [nfail EXCEPT ![idx] = IF plain'[idx] THEN CountUp(@) ELSE 1]
            /\ idx' = idx + 1
            /\ ev' = [kind |-> "failure", a |-> idx]
            /\ UNCHANGED ppc
       ELSE /\ ppc' = "crashed"
            /\ ev' = [kind |-> "raise", a |-> idx]
            /\ UNCHANGED <<backoff, next_run, nfail, plain, idx>>
    /\ UNCHANGED <<edition, interval, stop, dueAtTick, proVars>>
    /\ UNCHANGED nonSchedVars

\* app.py:481-482  the for loop is over; last_poll_iso is refreshed
EndTick ==
    /\ edition = "app"
    /\ ppc = "for"
    /\ idx \notin Adapters
    /\ ppc' = "wait"
    /\ ev' = [kind |-> "endtick", a |-> 0]
    /\ UNCHANGED <<edition, interval, backoff, next_run, idx, stop, nfail, plain, dueAtTick, ran, seen, proVars>>
    /\ UNCHANGED nonSchedVars

RECURSIVE MinOver(_, _)
MinOver(f, S) ==
    IF S = {} THEN 0
    ELSE LET a == CHOOSE x \in S : TRUE IN
         IF S = {a} THEN f[a] ELSE Min(f[a], MinOver(f, S \ {a}))

\* app.py:483  stop_event.wait(1).  The loop wakes every second; the ticks
\* before the first source is due skip every source and change nothing, so
\* the wait runs up to the tick in which a source is due again.  A set
\* stop_event ends the wait at once.
Wait ==
    /\ edition = "app"
    /\ ppc = "wait"
    /\ LET seconds == IF stop THEN 0 ELSE Max(1, MinOver(next_run, Adapters)) IN
       next_run' = [a \in Adapters |-> Max(0, next_run[a] - seconds)]
    /\ ppc' = "top"
    /\ ev' = [kind |-> "wait", a |-> 0]
    /\ dueAtTick' = {}
    /\ ran' = {}
    /\ seen' = {}
    /\ UNCHANGED <<edition, interval, backoff, idx, stop, nfail, plain, proVars>>
    /\ UNCHANGED nonSchedVars

\* app.py:676-677  shutdown(): stop_event.set()
Shutdown ==
    /\ edition = "app"
    /\ ~stop
    /\ ppc # "done"
    /\ stop' = TRUE
    /\ UNCHANGED <<edition, interval, backoff, next_run, ppc, idx, ev, nfail, plain, dueAtTick, ran, seen, proVars>>
    /\ UNCHANGED nonSchedVars

----------------------------------------------------------------------------
(* The poll loop of the Pro edition: sora_invite._poll_sources over SOURCES *)

\* sora_invite.py:264  "poll_interval": max(10, poll_interval)
poll_interval == Max(10, interval)

\* sora_invite.py:442-457  rate_limit_delay of the SourceSpec entries: none for
\* the first source, one second for the others
rate_limit_delay(a) == IF a = 1 THEN 0 ELSE 1

\* a threshold that lets one more failure through
failure_threshold_late(a) == DEFAULT_FAILURE_THRESHOLD + 1

\* sora_invite.py:208-209
failure_threshold(a) == DEFAULT_FAILURE_THRESHOLD
cooldown_seconds(a) == DEFAULT_COOLDOWN_SECONDS

\* a loop whose handler lets everything but request errors through
ProCaught_http_only(kind) == kind \in {"http429", "http"}

\* sora_invite.py:587  except Exception as exc
ProCaught(kind) == kind \in {"http429", "http", "exception"}

\* the clock moves on: the times kept from the present come closer
Later(t, seconds) == IF t = None THEN None ELSE Max(0, t - seconds)

\* a loop that never looks at cooldown_until
Cooling_ignored(a) == FALSE

\* sora_invite.py:566  now < source.cooldown_until
Cooling(a) == cooldown_until[a] # None /\ Now < cooldown_until[a]

\* the source's turn leads to a fetch: sora_invite.py:555-574
ProDue(a) == enabled[a] /\ a \notin disabled_set /\ ~Cooling(a)

\* sora_invite.py:549-553  while True: start_time = time.time() ...
ProCycleStart ==
    /\ edition = "pro"
    /\ ppc = "top"
    /\ elapsed' = 0
    /\ idx' = 1
    /\ ppc' = "for"
    /\ dueAtTick' = {a \in Adapters : ProDue(a)}
    /\ ran' = {}
    /\ seen' = {}
    /\ ev' = [kind |-> "top", a |-> 0]
    /\ UNCHANGED <<edition, interval, backoff, next_run, stop, nfail, plain,
                   enabled, failure_count, cooldown_until, disabled_reason, disabled_set>>
    /\ UNCHANGED nonSchedVars

\* sora_invite.py:555-571  the source is switched off, disabled by
\* DISABLE_SOURCES, or cooling down: continue
ProSkip ==
    /\ edition = "pro"
    /\ ppc = "for"
    /\ idx \in Adapters
    /\ ~ProDue(idx)
    /\ disabled_reason' =
          IF ~enabled[idx] THEN disabled_reason
          ELSE IF idx \in disabled_set THEN [disabled_reason EXCEPT ![idx] = "disabled-by-env"]
          ELSE [disabled_reason EXCEPT ![idx] = "cooldown"]
    /\ seen' = seen \cup {idx}
    /\ idx' = idx + 1
    /\ ev' = [kind |-> "skip", a |-> idx]
    /\ UNCHANGED <<edition, interval, backoff, next_run, ppc, stop, nfail, plain, dueAtTick, ran,
                   enabled, failure_count, cooldown_until, disabled_set, elapsed>>
    /\ UNCHANGED nonSchedVars

\* sora_invite.py:572-586  an elapsed cooldown is cleared; the fetch and
\* _process_entries return; failure_count = 0; time.sleep(rate_limit_delay)
ProFetchSuccess ==
    /\ edition = "pro"
    /\ ppc = "for"
    /\ idx \in Adapters
    /\ ProDue(idx)
    /\ failure_count' = [failure_count EXCEPT ![idx] = 0]
    /\ disabled_reason' = [disabled_reason EXCEPT ![idx] = "None"]
    /\ LET seconds == rate_limit_delay(idx) IN
       /\ cooldown_until' = [a \in Adapters |->
                                IF a = idx THEN None ELSE Later(cooldown_until[a], seconds)]
       /\ elapsed' = elapsed + seconds
    /\ ran' = ran \cup {idx}
    /\ seen' = seen \cup {idx}
    /\ idx' = idx + 1
    /\ ev' = [kind |-> "success", a |-> idx]
    /\ UNCHANGED <<edition, interval, backoff, next_run, ppc, stop, nfail, plain, dueAtTick,
                   enabled, disabled_set>>
    /\ UNCHANGED nonSchedVars

\* sora_invite.py:572-576,587-599  an elapsed cooldown is cleared; the fetch
\* or _process_entries raises; failure_count += 1, cooldown at the threshold
ProFetchFailure(kind) ==
    /\ edition = "pro"
    /\ ppc = "for"
    /\ idx \in Adapters
    /\ ProDue(idx)
    /\ ran' = ran \cup {idx}
    /\ seen' = seen \cup {idx}
    /\ LET cleared == IF cooldown_until[idx] # None THEN 0 ELSE failure_count[idx]
           count == cleared + 1
       IN IF ProCaught(kind)
          THEN /\ failure_count' = [failure_count EXCEPT ![idx] = count]
               /\ IF count >= failure_threshold(idx)
                  THEN /\ cooldown_until' =
                             [cooldown_until EXCEPT ![idx] = Now + cooldown_seconds(idx)]
                       /\ disabled_reason' = [disabled_reason EXCEPT ![idx] = "cooldown"]
                  ELSE /\ cooldown_until' = [cooldown_until EXCEPT ![idx] = None]
                       /\ disabled_reason' = [disabled_reason EXCEPT ![idx] = "error"]
               /\ idx' = idx + 1
               /\ ev' = [kind |-> "failure", a |-> idx]
               /\ UNCHANGED ppc
          ELSE /\ ppc' = "crashed"
               /\ ev' = [kind |-> "raise", a |-> idx]
               /\ UNCHANGED <<failure_count, cooldown_until, disabled_reason, idx>>
    /\ UNCHANGED <<edition, interval, backoff, next_run, stop, nfail, plain, dueAtTick,
                   enabled, disabled_set, elapsed>>
    /\ UNCHANGED nonSchedVars

\* sora_invite.py:600-609  the for loop is over; last_poll, sleep_for, save
ProEndCycle ==
    /\ edition = "pro"
    /\ ppc = "for"
    /\ idx \notin Adapters
    /\ ppc' = "wait"
    /\ ev' = [kind |-> "endtick", a |-> 0]
    /\ UNCHANGED <<edition, interval, backoff, next_run, idx, stop, nfail, plain, dueAtTick, ran,
                   seen, proVars>>
    /\ UNCHANGED nonSchedVars

\* sora_invite.py:607,610  time.sleep(max(poll_interval - elapsed, 5))
ProSleep ==
    /\ edition = "pro"
    /\ ppc = "wait"
    /\ LET sleep_for == Max(poll_interval - elapsed, 5) IN
       cooldown_until' = [a \in Adapters |-> Later(cooldown_until[a], sleep_for)]
    /\ ppc' = "top"
    /\ ev' = [kind |-> "wait", a |-> 0]
    /\ dueAtTick' = {}
    /\ ran' = {}
    /\ seen' = {}
    /\ UNCHANGED <<edition, interval, backoff, next_run, idx, stop, nfail, plain,
                   enabled, failure_count, disabled_reason, disabled_set, elapsed>>
    /\ UNCHANGED nonSchedVars

\* sora_invite.py:746-757  the sources the admin switches in the runs explored
AdminSources == {1}

\* sora_invite.py:746-757  the admin switches a source on or off
toggle_source(a) ==
    /\ edition = "pro"
    /\ a \in Adapters
    /\ enabled' = [enabled EXCEPT ![a] = ~@]
    /\ UNCHANGED <<edition, interval, backoff, next_run, ppc, idx, stop, ev, nfail, plain,
                   dueAtTick, ran, seen, failure_count, cooldown_until, disabled_reason,
                   disabled_set, elapsed>>
    /\ UNCHANGED nonSchedVars

SchedInit ==
    /\ MoreIdle
    /\ store = <<>>
    /\ db = [rows |-> <<>>, seq |-> 0]
    /\ last = NoCall
    /\ backend = "memory"
    /\ ConcIdle
    /\ HunterIdle
    /\ edition \in {"app", "pro"}
    /\ interval \in Intervals
    /\ \E n \in 1..NumSources :
          \* the intervals below the floor and above the ceiling are explored
          \* with a single adapter
          /\ (interval < 5 \/ interval > MAX_BACKOFF => n = 1)
          /\ backoff = [a \in 1..n |-> 0]
          /\ next_run = [a \in 1..n |-> Now]
          /\ nfail = [a \in 1..n |-> 0]
          /\ plain = [a \in 1..n |-> TRUE]
          /\ enabled = [a \in 1..n |-> TRUE]
          /\ failure_count = [a \in 1..n |-> 0]
          /\ cooldown_until = [a \in 1..n |-> None]
          /\ disabled_reason = [a \in 1..n |-> "None"]
          /\ disabled_set \in IF edition = "pro" THEN {{}, {n}} ELSE {{}}
    /\ elapsed = 0
    /\ ppc = "top"
    /\ idx = 1
    /\ stop = FALSE
    /\ ev = [kind |-> "none", a |-> 0]
    /\ dueAtTick = {}
    /\ ran = {}
    /\ seen = {}

\* the steps of the poller thread itself
PollerStep ==
    \/ LoopTop
    \/ Skip
    \/ FetchSuccess
    \/ \E kind \in FailureKinds : FetchFailure(kind)
    \/ EndTick
    \/ Wait
    \/ ProCycleStart
    \/ ProSkip
    \/ ProFetchSuccess
    \/ \E kind \in FailureKinds : ProFetchFailure(kind)
    \/ ProEndCycle
    \/ ProSleep

SchedNext ==
    \/ PollerStep
    \/ Shutdown
    \/ \E a \in AdminSources : toggle_source(a)

SpecSched == SchedInit /\ [][SchedNext]_vars

\* app.py:668-669, sora_invite.py:775-776  the poller is a started thread: it
\* is scheduled as long as it has a step to take, and every fetch comes back
SpecSchedFair == SchedInit /\ [][SchedNext]_vars /\ WF_vars(PollerStep)

----------------------------------------------------------------------------
(* Claims about the poll loops *)

\* the failures in a row of source a: the history of app.py's loop, the
\* failure_count of the Pro edition
Failures(a) == IF edition = "pro" THEN failure_count[a] ELSE nfail[a]

\* a step that fetches source a, with either outcome
FetchStep(a) ==
    /\ ppc = "for"
    /\ idx = a
    /\ idx' = a + 1
    /\ ev'.kind \in {"success", "failure"}

\* C6: an error raised by a source's fetch or by the processing of its items
\* never leaves the scheduler loop: the loop never dies of it, and at the end
\* of every tick each source has had its turn and (app.py) every source that
\* was due at the start of the tick has been fetched.
C6_ErrorsStayInLoop ==
    /\ ppc # "crashed"
    /\ ev.kind # "raise"
    /\ ppc = "wait" =>
          /\ seen = Adapters
          /\ edition = "app" => ran = dueAtTick

\* a tick is over in which a source failed and a later source was fetched
C6_Witness ==
    /\ ppc = "wait"
    /\ \E a, b \in ran : a < b /\ Failures(a) > 0 /\ Failures(b) = 0

\* C7: while no shutdown is signalled, every configured source (in the Pro
\* edition: one that is not disabled by DISABLE_SOURCES and that the admin
\* does not keep switching off) is fetched again and again, whatever the
\* outcomes of the fetches.  (stop_event is never cleared, so a shutdown that
\* was signalled once shows in every later state.)
C7_EverySourceFetchedAgain ==
    \A a \in Sources :
        \/ []<>(stop \/ a \notin Adapters \/ a \in disabled_set \/ ~enabled[a])
        \/ []<><<FetchStep(a)>>_vars

\* a source is fetched once more after two failures of its own, next to a
\* source that has failed three times in a row
C7_Witness ==
    /\ ev.kind = "failure"
    /\ Failures(ev.a) >= 3
    /\ \E b \in Adapters : b # ev.a /\ Failures(b) >= 3

\* C8 as stated: after a successful fetch the backoff is zero, the count of
\* consecutive failures is zero and next_run is the present plus the base
\* interval, for every configured interval.
C8_AfterSuccess_AsStated ==
    ev.kind = "success" =>
        /\ Failures(ev.a) = 0
        /\ edition = "app" => /\ backoff[ev.a] = 0
                              /\ next_run[ev.a] = Now + interval

\* C8: after a successful fetch the backoff is zero, the count of consecutive
\* failures is zero and next_run is the present plus the base interval, but
\* never less than five seconds from the present.
C8_AfterSuccess ==
    ev.kind = "success" =>
        /\ Failures(ev.a) = 0
        /\ edition = "app" => /\ backoff[ev.a] = 0
                              /\ next_run[ev.a] = Now + Max(5, interval)

\* a fetch has just succeeded at an interval below five seconds
C8_Witness ==
    /\ ev.kind = "success"
    /\ edition = "app"
    /\ interval < 5
    /\ next_run[ev.a] = 5

\* C9: the backoff of a source never decreases from one failure to the next,
\* never exceeds MAX_BACKOFF, and is zero right after a success.
C9_BackoffMonotoneBounded ==
    /\ [](\A a \in Adapters : backoff[a] >= 0 /\ backoff[a] <= MAX_BACKOFF)
    /\ [](ev.kind = "success" /\ edition = "app" => backoff[ev.a] = 0)
    /\ [][\A a \in Adapters :
            (FetchStep(a) /\ ev'.kind = "failure" /\ nfail[a] > 0)
                => backoff'[a] >= backoff[a]]_vars
    /\ [][\A a \in Adapters :
            (FetchStep(a) /\ ev'.kind = "success" /\ edition = "app")
                => backoff'[a] = 0]_vars

\* a source at the ceiling has failed once more
C9_Witness ==
    /\ ev.kind = "failure"
    /\ edition = "app"
    /\ nfail[ev.a] >= 4
    /\ backoff[ev.a] = MAX_BACKOFF
    /\ interval < MAX_BACKOFF

\* C10 as stated: with a base interval of 60 s, two failures in a row without
\* rate limiting have taken the backoff through 60 and 120 to 240.
C10_TwoFailures_AsStated ==
    \A a \in Adapters :
        (edition = "app" /\ interval = 60 /\ plain[a] /\ nfail[a] = 2)
            => backoff[a] = 240

\* C10: with a base interval of 60 s and no rate limiting, the backoff is 60
\* after the first failure in a row, 120 after the second, 240 after the
\* third and MAX_BACKOFF from the fourth on.
C10_BackoffSequence ==
    \A a \in Adapters :
        (edition = "app" /\ interval = 60 /\ plain[a]) =>
            /\ nfail[a] = 0 => backoff[a] = 0
            /\ nfail[a] = 1 => backoff[a] = 60
            /\ nfail[a] = 2 => backoff[a] = 120
            /\ nfail[a] = 3 => backoff[a] = 240
            /\ nfail[a] >= 4 => backoff[a] = MAX_BACKOFF

\* the third failure in a row has just taken the backoff to 240
C10_Witness ==
    /\ ev.kind = "failure"
    /\ edition = "app"
    /\ interval = 60
    /\ plain[ev.a]
    /\ nfail[ev.a] = 3
    /\ backoff[ev.a] = 240

\* C32: a failure without rate limiting takes the backoff b of the source to
\* min(300, max(2b if b is not zero, else the base interval; the base
\* interval)) and its next_run to the present plus max(5, the new backoff).
C32_PlainFailureBackoff ==
    [][\A kind \in {"http", "exception"} :
         FetchFailure(kind) =>
            LET old == backoff[idx]
                grown == IF old # 0 THEN 2 * old ELSE interval
                new == Min(300, Max(grown, interval))
            IN /\ backoff'[idx] = new
               /\ next_run'[idx] = Now + Max(5, new)]_vars

\* the second failure in a row without rate limiting has doubled the backoff
\* of the base interval and set next_run by it
C32_Witness ==
    /\ ev.kind = "failure"
    /\ edition = "app"
    /\ interval = 60
    /\ plain[ev.a]
    /\ nfail[ev.a] = 2
    /\ backoff[ev.a] = 120
    /\ next_run[ev.a] = Now + 120

\* C33: a failure with status 429 is taken for rate limiting: it takes the
\* backoff b to min(300, max(2b if b is not zero, else twice the base
\* interval; the base interval)), and in every state the backoff a
\* rate-limited failure would give is at least the one a failure without
\* rate limiting would give.
C33_RateLimitedBackoff ==
    /\ [][FetchFailure("http429") =>
            LET old == backoff[idx]
                grown == IF old # 0 THEN 2 * old ELSE 2 * interval
                new == Min(300, Max(grown, interval))
            IN /\ backoff'[idx] = new
               /\ next_run'[idx] = Now + Max(5, new)]_vars
    /\ [][\A kind \in {"http", "exception"} : \A a \in Adapters :
            (FetchFailure("http429") /\ idx = a) =>
                backoff'[a] >= record_failure(backoff[a], interval, RateLimited(kind))]_vars

\* a first failure, with status 429, has set the backoff to twice the base
\* interval
C33_Witness ==
    /\ ev.kind = "failure"
    /\ edition = "app"
    /\ interval = 60
    /\ ~plain[ev.a]
    /\ nfail[ev.a] = 1
    /\ backoff[ev.a] = 120
    /\ next_run[ev.a] = Now + 120

\* C34: in each tick of app.py's loop the sources taken for due are those
\* whose next_run is not after the time of the tick; the sources are taken in
\* the order of the adapter list, a source is fetched only if it is due and
\* has not been fetched in this tick, is passed over only if it is not due,
\* and at the end of the tick every due source has been fetched.
C34_DueSourcesInOrder ==
    /\ [][(edition = "app" /\ ppc = "top" /\ ppc' = "for") =>
            dueAtTick' = {a \in Adapters : next_run[a] <= Now}]_vars
    /\ [][\A a \in Adapters :
            (edition = "app" /\ FetchStep(a)) =>
                /\ a \in dueAtTick
                /\ a \notin ran
                /\ seen = 1..(a - 1)]_vars
    /\ [][(edition = "app" /\ ev'.kind = "skip" /\ idx' # idx) =>
                /\ idx \notin dueAtTick
                /\ seen = 1..(idx - 1)]_vars
    /\ [](edition = "app" /\ ppc = "wait" => ran = dueAtTick /\ seen = Adapters)

\* a tick has ended in which the first source was passed over and the second
\* was fetched
C34_Witness ==
    /\ edition = "app"
    /\ ppc = "wait"
    /\ Cardinality(Adapters) >= 2
    /\ 1 \notin ran
    /\ 2 \in ran
    /\ dueAtTick = ran

\* C37: after a failure the time until next_run is at least the base interval.
C37_FailureDelayAtLeastBase ==
    \A a \in Adapters :
        (edition = "app" /\ ev.kind = "failure" /\ ev.a = a) => next_run[a] >= Now + interval


\* C38: in the Pro edition's loop no source has more failures counted than
\* its threshold (DEFAULT_FAILURE_THRESHOLD for every source of SOURCES);
\* cooldown_until is set only with the count at the threshold or above; a
\* fetch that succeeds sets the count to zero; and a cooldown begins only
\* with the failure that takes the count from one below the threshold to it.
C38_CountWithinThreshold ==
    /\ [](edition = "pro" =>
            \A a \in Adapters :
                /\ failure_count[a] <= DEFAULT_FAILURE_THRESHOLD
                /\ cooldown_until[a] # None => failure_count[a] >= DEFAULT_FAILURE_THRESHOLD)
    /\ [][\A a \in Adapters :
            (edition = "pro" /\ FetchStep(a) /\ ev'.kind = "success")
                => failure_count'[a] = 0 /\ cooldown_until'[a] = None]_vars
    /\ [][\A a \in Adapters :
            (edition = "pro" /\ cooldown_until[a] = None /\ cooldown_until'[a] # None) =>
                /\ FetchStep(a)
                /\ ev'.kind = "failure"
                /\ failure_count[a] = DEFAULT_FAILURE_THRESHOLD - 1
                /\ failure_count'[a] = DEFAULT_FAILURE_THRESHOLD]_vars

\* a source has just been fetched with success, after failures that stayed
\* below the threshold, while another one is in cooldown with its count at
\* the threshold
C38_Witness ==
    /\ edition = "pro"
    /\ ev.kind = "success"
    /\ failure_count[ev.a] = 0
    /\ \E b \in Adapters :
          /\ b # ev.a
          /\ cooldown_until[b] # None
          /\ failure_count[b] = DEFAULT_FAILURE_THRESHOLD

\* C16: once stop_event is set, the loop of app.py begins no new tick; until
\* it has ended, backoff and next_run change only by the fetches of the
\* running tick, and not at all after it has ended; and the loop does end.
C16_ShutdownAtTickBoundary ==
    /\ [][stop => ~(ppc = "top" /\ ppc' = "for")]_vars
    /\ [][(stop /\ (backoff' # backoff \/ next_run' # next_run))
            => \E a \in Adapters : FetchStep(a)]_vars
    /\ [][ppc = "done" => UNCHANGED <<ppc, backoff, next_run>>]_vars
    /\ []<>(~stop \/ ppc = "done")

\* the loop has ended after a shutdown, with a source left in backoff
C16_Witness ==
    /\ stop
    /\ ppc = "done"
    /\ ev.kind = "exit"
    /\ \E a \in Adapters : backoff[a] > 0 /\ next_run[a] > Now

----------------------------------------------------------------------------
(* One poll of one source, from the requests of its adapter to the record the
   poll loop keeps of it *)

MaxUrls == 2

\* what a request meets: a good answer, an answer with malformed content, no
\* answer (connection error or timeout), a status that is not 2xx
NetOutcomes == {"ok", "malformed", "network", "http500", "http429"}

\* what add_candidate does with a candidate
StoreOutcomes == {"inserted", "duplicate", "error"}

\* adapters/base.py:59-65  the request fails: the session raises (connection
\* error, timeout) or raise_for_status does (a status that is not 2xx)
TransportFailure(n) == n \in {"network", "http500", "http429"}

\* adapters/base.py:57-65  SourceAdapter.get, sora_invite.py:291-296
\* _make_request: raise_for_status raises requests.HTTPError, the session
\* raises another requests.RequestException
RaisedBy(n) ==
    CASE n = "http429" -> "http429"
      [] n = "http500" -> "http"
      [] n = "network" -> "exception"
      [] OTHER -> "none"

\* the adapters of app.py and three fetchers of the Pro edition
AppAdapters == {"reddit_search", "reddit_subs", "generic_rss", "generic_html"}
ProFetchers == {"_fetch_reddit", "_fetch_x_search", "_fetch_bluesky_search"}

\* adapters/reddit_search.py:24, sora_invite.py:309,354,362  one request per fetch
SingleRequest(name) == name \in {"reddit_search"} \cup ProFetchers

\* adapters/generic_html.py:38-41, generic_rss.py:21-24, reddit_subs.py:20-23
\* except Exception: continue; sora_invite.py:357-358,378-379 except
\* Exception: return []
Swallows(name) ==
    name \in {"reddit_subs", "generic_rss", "generic_html",
              "_fetch_x_search", "_fetch_bluesky_search"}

\* what the fetch does with an answer it cannot parse:
\* adapters/reddit_search.py:25, reddit_subs.py:24, sora_invite.py:310
\* response.json() raises; generic_rss.py:25-29 the feed is skipped;
\* generic_html.py:47-51 and sora_invite.py:355 the text is kept as it is;
\* sora_invite.py:363,378-379 the error is swallowed
OnMalformed(name) ==
    CASE name \in {"reddit_search", "reddit_subs", "_fetch_reddit"} -> "raise"
      [] name \in {"generic_rss", "_fetch_bluesky_search"} -> "skip"
      [] OTHER -> "item"

\* fetch(): the requests one after the other
RECURSIVE FetchFrom(_, _, _, _)
FetchFrom(name, nets, i, items) ==
    IF i > Len(nets)
    THEN [requests |-> Len(nets), raised |-> "none", items |-> items]
    ELSE IF TransportFailure(nets[i])
    THEN IF Swallows(name)
         THEN FetchFrom(name, nets, i + 1, items)
         ELSE [requests |-> i, raised |-> RaisedBy(nets[i]), items |-> 0]
    ELSE IF nets[i] = "malformed" /\ OnMalformed(name) = "raise"
    THEN [requests |-> i, raised |-> "exception", items |-> 0]
    ELSE IF nets[i] = "malformed" /\ OnMalformed(name) = "skip"
    THEN FetchFrom(name, nets, i + 1, items)
    ELSE FetchFrom(name, nets, i + 1, items + 1)

adapter_fetch(name, nets) ==
    FetchFrom(name, IF SingleRequest(name) THEN SubSeq(nets, 1, 1) ELSE nets, 1, 0)

\* app.py:418-431  process_items: one candidate per item; an error of
\* add_candidate leaves the function
RECURSIVE ProcessFrom(_, _, _)
ProcessFrom(stores, i, sent) ==
    IF i > Len(stores)
    THEN [raised |-> "none", handled |-> Len(stores), published |-> sent]
    ELSE IF stores[i] = "error"
    THEN [raised |-> "exception", handled |-> i - 1, published |-> sent]
    ELSE ProcessFrom(stores, i + 1,
                     IF stores[i] = "inserted" THEN sent + 1 ELSE sent)

\* what one poll does: fetch, then the candidates of its items
PollOutcome(name, nets, stores) ==
    LET f == adapter_fetch(name, nets)
        p == ProcessFrom(stores, 1, 0)
    IN IF f.raised # "none"
       THEN [requests |-> f.requests, raised |-> f.raised, items |-> 0,
             handled |-> 0, published |-> 0]
       ELSE [requests |-> f.requests, raised |-> p.raised, items |-> f.items,
             handled |-> p.handled, published |-> p.published]

\* the outcomes add_candidate may have for the candidates of a fetch
StoreInputs(name, nets) ==
    LET f == adapter_fetch(name, nets) IN
    IF edition = "app" /\ f.raised = "none" THEN [1..f.items -> StoreOutcomes] ELSE {<<>>}

FetchInit ==
    /\ store = <<>>
    /\ db = [rows |-> <<>>, seq |-> 0]
    /\ last = NoCall
    /\ backend = "memory"
    /\ ConcIdle
    /\ HunterIdle
    /\ edition \in {"app", "pro"}
    /\ interval \in {iv \in Intervals : iv >= 5 /\ iv <= MAX_BACKOFF}
    /\ fadapter \in IF edition = "app" THEN AppAdapters ELSE ProFetchers
    /\ fin \in {[nets |-> [u \in 1..n |-> "ok"], stores |-> <<>>] : n \in 1..MaxUrls}
    /\ fout = NoOutcome
    /\ BroadcastIdle
    /\ ExtractIdle
    /\ ThreadIdle
    /\ backoff = <<0>>
    /\ next_run = <<Now>>
    /\ nfail = <<0>>
    /\ plain = <<TRUE>>
    /\ enabled = <<TRUE>>
    /\ failure_count = <<0>>
    /\ cooldown_until = <<None>>
    /\ disabled_reason = <<"None">>
    /\ disabled_set = {}
    /\ elapsed = 0
    /\ ppc = "for"
    /\ idx = 1
    /\ stop = FALSE
    /\ ev = [kind |-> "none", a |-> 0]
    /\ dueAtTick = {}
    /\ ran = {}
    /\ seen = {}

\* app.py:450-480  the turn of a due source: fetch, process_items, record
PollAdapter(nets) ==
    /\ edition = "app"
    /\ Due(1)
    /\ Len(nets) = Len(fin.nets)
    /\ \E stores \in StoreInputs(fadapter, nets) :
       LET o == PollOutcome(fadapter, nets, stores) IN
       /\ fin' = [nets |-> nets, stores |-> stores]
       /\ fout' = o
       /\ IF o.raised = "none"
          THEN /\ backoff' = [backoff EXCEPT ![1] = record_success(@)]
               /\ nfail' = [nfail EXCEPT ![1] = 0]
               /\ plain' = [plain EXCEPT ![1] = TRUE]
               /\ ev' = [kind |-> "success", a |-> 1]
          ELSE /\ Caught(o.raised)
               /\ backoff' = [backoff EXCEPT ![1] =
                                 record_failure(@, interval, RateLimited(o.raised))]
               /\ plain' = [plain EXCEPT ![1] = @ /\ ~RateLimited(o.raised)]
               /\ nfail' = [nfail EXCEPT ![1] = IF plain'[1] THEN CountUp(@) ELSE 1]
               /\ ev' = [kind |-> "failure", a |-> 1]
       /\ next_run' = [next_run EXCEPT ![1] = schedule_next(backoff'[1], interval)]
    /\ UNCHANGED <<edition, interval, ppc, idx, stop, dueAtTick, ran, seen, proVars, fadapter>>
    /\ UNCHANGED <<store, db, last, concVars, hunterVars, broadcastVars, extractVars, threadVars>>

\* sora_invite.py:565-599  the turn of a source that is not cooling down
PollSource(nets) ==
    /\ edition = "pro"
    /\ ProDue(1)
    /\ Len(nets) = Len(fin.nets)
    /\ LET o == PollOutcome(fadapter, nets, <<>>)
           cleared == IF cooldown_until[1] # None THEN 0 ELSE failure_count[1]
       IN
       /\ fin' = [nets |-> nets, stores |-> <<>>]
       /\ fout' = o
       /\ IF o.raised = "none"
          THEN /\ failure_count' = [failure_count EXCEPT ![1] = 0]
               /\ cooldown_until' = [cooldown_until EXCEPT ![1] = None]
               /\ disabled_reason' = [disabled_reason EXCEPT ![1] = "None"]
               /\ ev' = [kind |-> "success", a |-> 1]
          ELSE /\ ProCaught(o.raised)
               /\ failure_count' = [failure_count EXCEPT ![1] = cleared + 1]
               /\ IF cleared + 1 >= failure_threshold(1)
                  THEN /\ cooldown_until' =
                             [cooldown_until EXCEPT ![1] = Now + cooldown_seconds(1)]
                       /\ disabled_reason' = [disabled_reason EXCEPT ![1] = "cooldown"]
                  ELSE /\ cooldown_until' = [cooldown_until EXCEPT ![1] = None]
                       /\ disabled_reason' = [disabled_reason EXCEPT ![1] = "error"]
               /\ ev' = [kind |-> "failure", a |-> 1]
    /\ UNCHANGED <<edition, interval, backoff, next_run, ppc, idx, stop, nfail, plain,
                   dueAtTick, ran, seen, enabled, disabled_set, elapsed, fadapter>>
    /\ UNCHANGED <<store, db, last, concVars, hunterVars, broadcastVars, extractVars, threadVars>>

\* app.py:483, sora_invite.py:610  the loop sleeps until the source is due again
BecomeDue ==
    /\ ~Due(1) \/ Cooling(1)
    /\ next_run' = [next_run EXCEPT ![1] = Now]
    /\ cooldown_until' = [cooldown_until EXCEPT ![1] = IF @ = None THEN None ELSE Now]
    /\ ev' = [kind |-> "wait", a |-> 0]
    /\ UNCHANGED <<edition, interval, backoff, ppc, idx, stop, nfail, plain, dueAtTick, ran,
                   seen, enabled, failure_count, disabled_reason, disabled_set, elapsed>>
    /\ UNCHANGED <<store, db, last, concVars, hunterVars, fetchVars, broadcastVars, extractVars, threadVars>>

\* the outcomes the requests of one fetch may have
NetInputs == UNION { [1..n -> NetOutcomes] : n \in 1..MaxUrls }

FetchNext ==
    \/ \E nets \in NetInputs : PollAdapter(nets)
    \/ \E nets \in NetInputs : PollSource(nets)
    \/ BecomeDue

SpecFetch == FetchInit /\ [][FetchNext]_vars

\* the requests the last fetch made
Requested == {fin.nets[i] : i \in 1..fout.requests}

\* C13: whenever a request of a fetch suffers a transport failure, the fetch
\* raises and the poll loop records a failure of the source: its backoff
\* (app.py) or its failure count (Pro edition) is above zero afterwards.
C13_TransportFailureRecorded ==
    (ev.kind \in {"success", "failure"}
        /\ \E n \in Requested : TransportFailure(n))
        => /\ fout.raised # "none"
           /\ ev.kind = "failure"
           /\ edition = "app" => backoff[1] > 0
           /\ edition = "pro" => failure_count[1] > 0

\* C14: when an answer holds malformed content and nothing else goes wrong in
\* the poll (no transport failure, no storage error), the poll loop records no
\* failure of the source: the poll counts as a success and leaves the backoff
\* and the failure count at zero.
C14_ParseErrorNotAFailure ==
    (ev.kind \in {"success", "failure"}
        /\ "malformed" \in Requested
        /\ \A n \in Requested : ~TransportFailure(n)
        /\ \A i \in DOMAIN fin.stores : fin.stores[i] # "error")
        => /\ ev.kind = "success"
           /\ backoff[1] = 0
           /\ failure_count[1] = 0

\* C15: when add_candidate fails with a storage error for a candidate of a
\* fetch, that candidate is not published, every candidate of the fetch is
\* still handled (each inserted one published), and the poll is recorded as a
\* success.
C15_StorageErrorIsNotNew ==
    (ev.kind \in {"success", "failure"}
        /\ edition = "app"
        /\ \E i \in DOMAIN fin.stores : fin.stores[i] = "error")
        => /\ ev.kind = "success"
           /\ fout.handled = fout.items
           /\ fout.published =
                 Cardinality({i \in DOMAIN fin.stores : fin.stores[i] = "inserted"})

active_ignores_cooldown(a) == enabled[a] /\ a \notin disabled_set

\* sora_invite.py:653,675  "active" in /codes.json, active_sources in /healthz
active(a) == enabled[a] /\ cooldown_until[a] = None /\ a \notin disabled_set

\* sora_invite.py:677-679  paused_sources in /healthz
paused(a) == a \in disabled_set \/ ~enabled[a] \/ cooldown_until[a] # None

\* C12: a source whose cooldown has not elapsed is reported paused and not
\* active; at its first turn after the cooldown has elapsed the source is
\* fetched with its failure count started again from zero and its cooldown
\* cleared; and every cooldown of a source that stays switched on ends.
C12_PausedThenResumed ==
    /\ [](\A a \in Adapters :
            (cooldown_until[a] # None /\ cooldown_until[a] > Now)
                => paused(a) /\ ~active(a))
    /\ [][\A a \in Adapters :
            (edition = "pro" /\ ppc = "for" /\ idx = a /\ idx' # idx
                /\ enabled[a] /\ a \notin disabled_set
                /\ cooldown_until[a] # None /\ cooldown_until[a] <= Now)
                => /\ FetchStep(a)
                   /\ failure_count'[a] = (IF ev'.kind = "success" THEN 0 ELSE 1)
                   /\ cooldown_until'[a] = None]_vars
    /\ \A a \in Sources :
          []<>(a \notin Adapters \/ a \in disabled_set \/ ~enabled[a]
                  \/ cooldown_until[a] = None)

\* the turn of a source has come whose cooldown has just elapsed: it is still
\* reported paused and its failure count is still at the threshold
C12_Witness ==
    /\ edition = "pro"
    /\ ppc = "for"
    /\ idx \in Adapters
    /\ ProDue(idx)
    /\ cooldown_until[idx] = Now
    /\ failure_count[idx] >= failure_threshold(idx)
    /\ paused(idx)

(***************************************************************************)
(* The fan-out of published candidates to the SSE clients                  *)
(* (app.py EventBroadcaster, /events).  The poller thread publishes; each  *)
(* request thread of /events registers a queue, drains it and unregisters  *)
(* it when the client goes away.                                           *)
(***************************************************************************)

\* queue.Queue(maxsize): a maxsize of zero or less means no limit
Queue(maxsize) == [maxsize |-> maxsize, items |-> <<>>]

\* queue.Queue.full: 0 < maxsize <= qsize
full(q) == 0 < q.maxsize /\ q.maxsize <= Len(q.items)

\* app.py:179  client.put_nowait(payload): raises Full or appends, never waits
put_nowait(q, item) ==
    IF full(q)
    THEN [raised |-> "Full", q |-> q]
    ELSE [raised |-> "none", q |-> [q EXCEPT !.items = Append(@, item)]]

\* a queue that holds one message at most
new_queue_bounded == Queue(1)

\* app.py:164  q = queue.Queue()
new_queue == Queue(0)

\* the elements of a list
Elements(list) == {list[i] : i \in DOMAIN list}

\* app.py:163-167  EventBroadcaster.register, called once by each /events request
register(s) ==
    /\ queues[s] = NoQueue
    /\ queues' = [queues EXCEPT ![s] = new_queue]
    /\ clients' = Append(clients, s)
    /\ UNCHANGED <<nonBroadcastVars, bpc, bsnap, bi, payload, atcall, got>>

\* an unregister that removes the oldest client, whichever is asked for
unregister_first(s) ==
    /\ s \in Elements(clients)
    /\ clients' = Tail(clients)
    /\ UNCHANGED <<nonBroadcastVars, queues, bpc, bsnap, bi, payload, atcall, got>>

\* app.py:169-172  EventBroadcaster.unregister, from the finally of the stream
unregister(s) ==
    /\ s \in Elements(clients)
    /\ clients' = SelectSeq(clients, LAMBDA c : c # s)
    /\ UNCHANGED <<nonBroadcastVars, queues, bpc, bsnap, bi, payload, atcall, got>>

\* app.py:659  data = q.get(timeout=30) of a connected client
get(s) ==
    /\ s \in Elements(clients)
    /\ queues[s].items # <<>>
    /\ queues' = [queues EXCEPT ![s].items = Tail(@)]
    /\ UNCHANGED <<nonBroadcastVars, clients, bpc, bsnap, bi, payload, atcall, got>>

\* app.py:174-176  publish is called and copies the list of clients under the lock
publish_call ==
    /\ bpc = "idle"
    /\ payload < MaxPublishes
    /\ payload' = payload + 1
    /\ bsnap' = clients
    /\ atcall' = Elements(clients)
    /\ bi' = 1
    /\ bpc' = "for"
    /\ UNCHANGED <<nonBroadcastVars, clients, queues, got>>

\* app.py:177-181  one turn of the for loop: put_nowait, a Full is passed over
publish_put ==
    /\ bpc = "for"
    /\ bi <= Len(bsnap)
    /\ LET s == bsnap[bi]
           r == put_nowait(queues[s], payload)
       IN  /\ queues' = [queues EXCEPT ![s] = r.q]
           /\ got' = [got EXCEPT ![s] = IF r.raised = "none" THEN @ \cup {payload} ELSE @]
    /\ bi' = bi + 1
    /\ UNCHANGED <<nonBroadcastVars, clients, bpc, bsnap, payload, atcall>>

\* app.py:177  the for loop is exhausted and publish returns
publish_return ==
    /\ bpc = "for"
    /\ bi > Len(bsnap)
    /\ bpc' = "idle"
    /\ UNCHANGED <<nonBroadcastVars, clients, queues, bsnap, bi, payload, atcall, got>>

BroadcastInit ==
    /\ store = <<>>
    /\ db = [rows |-> <<>>, seq |-> 0]
    /\ last = NoCall
    /\ backend = "memory"
    /\ ConcIdle
    /\ HunterIdle
    /\ SchedIdle
    /\ FetchIdle
    /\ BroadcastIdle
    /\ ExtractIdle
    /\ ThreadIdle

BroadcastNext ==
    \/ \E s \in Subscribers : register(s)
    \/ \E s \in Subscribers : unregister(s)
    \/ \E s \in Subscribers : get(s)
    \/ publish_call
    \/ publish_put
    \/ publish_return

SpecBroadcast == BroadcastInit /\ [][BroadcastNext]_vars

\* C17: when the for loop of publish is exhausted, the payload has been put
\* into the queue of every subscriber that was registered when publish was
\* called, whether or not that subscriber has drained what it was sent before
\* and whether or not it has gone away since; and the publisher never waits:
\* inside publish its next step can always be taken.
C17_PublishReachesAllNeverBlocks ==
    /\ (bpc = "for" /\ bi > Len(bsnap)) => \A s \in atcall : payload \in got[s]
    /\ bpc = "for" => ENABLED (publish_put \/ publish_return)

\* the second publish has reached two subscribers, one of which had not
\* drained the first
C17_Witness ==
    /\ bpc = "for"
    /\ bi > Len(bsnap)
    /\ payload >= 2
    /\ Cardinality(atcall) >= 2
    /\ \E s \in atcall : Len(queues[s].items) >= 2

\* C18: every queue that register has made has a capacity, and never holds
\* more than that.
C18_QueuesBounded ==
    \A s \in Subscribers :
        queues[s] # NoQueue
            => 0 < queues[s].maxsize /\ Len(queues[s].items) <= queues[s].maxsize


\* subscriber s has registered and unregister has returned for it
Unregistered(s) == queues[s] # NoQueue /\ s \notin Elements(clients)

\* C36 as stated: once unregister has returned for a subscriber, no publish
\* puts a payload into its queue.
C36_NoPutAfterUnregister_AsStated ==
    [][\A s \in Subscribers : Unregistered(s) => got'[s] = got[s]]_vars

\* C36: unregister takes the subscriber off the list of clients, and once it
\* has returned, the only publish that still puts a payload into the
\* subscriber's queue is one that was called while the subscriber was
\* registered; a publish called later puts nothing into it.
C36_NoPutByLaterPublish ==
    /\ [][\A s \in Subscribers : unregister(s) => s \notin Elements(clients')]_vars
    /\ [][\A s \in Subscribers :
            (Unregistered(s) /\ got'[s] # got[s]) => (bpc = "for" /\ s \in atcall)]_vars
    /\ [](\A s \in Subscribers :
            (bpc = "for" /\ bi > Len(bsnap) /\ Unregistered(s) /\ s \notin atcall)
                => payload \notin got[s])

\* a publish called after a subscriber's unregister has reached the other
\* subscriber and not the one that went away
C36_Witness ==
    /\ bpc = "for"
    /\ bi > Len(bsnap)
    /\ atcall # {}
    /\ \A s \in atcall : payload \in got[s]
    /\ \E s \in Subscribers : Unregistered(s) /\ s \notin atcall /\ payload \notin got[s]

(***************************************************************************)
(* CodeExtractor.extract (app.py:105-135).  A text is a sequence of        *)
(* characters; the piece "http://" of an input stands for its seven         *)
(* characters.                                                              *)
(***************************************************************************)

\* bound: the number of pieces of a text
MaxTextLen == 5

Pieces == {"A", "a", "1", "2", "3", " ", "http://"}
Texts == UNION { [1..n -> Pieces] : n \in 0..MaxTextLen }

Http == <<"h", "t", "t", "p", ":", "/", "/">>
Https == <<"h", "t", "t", "p", "s", ":", "/", "/">>

RECURSIVE Flatten(_)
Flatten(pieces) ==
    IF pieces = <<>> THEN <<>>
    ELSE (IF Head(pieces) = "http://" THEN Http ELSE <<Head(pieces)>>) \o Flatten(Tail(pieces))

DigitChars == <<"0", "1", "2", "3", "4", "5", "6", "7", "8", "9">>
\* str.isdigit, str.isalpha and int() of one character of an upper-cased text
IsDigit(ch) == \E d \in DOMAIN DigitChars : DigitChars[d] = ch
IsAlpha(ch) == ch \in {"A", "B", "H", "P", "S", "T"}
int(ch) == (CHOOSE d \in DOMAIN DigitChars : DigitChars[d] = ch) - 1

StartsWith(t, i, lit) ==
    /\ i + Len(lit) - 1 <= Len(t)
    /\ \A k \in DOMAIN lit : t[i + k - 1] = lit[k]

\* a pattern that matches nowhere
UrlEnd_none(t, i) == 0

\* app.py:107  URL_PATTERN https?://[^\s]+ matched at i: the position of the
\* last character of the match, 0 without a match
UrlEnd(t, i) ==
    LET p == IF StartsWith(t, i, Http) THEN Len(Http)
             ELSE IF StartsWith(t, i, Https) THEN Len(Https) ELSE 0
        first == i + p
    IN IF p = 0 \/ first > Len(t) \/ t[first] = " " THEN 0
       ELSE CHOOSE j \in first..Len(t) :
               /\ \A k \in first..j : t[k] # " "
               /\ (j = Len(t) \/ t[j + 1] = " ")

\* app.py:117  cleaned = self.URL_PATTERN.sub(" ", text)
RECURSIVE SubUrls(_, _)
SubUrls(t, i) ==
    IF i > Len(t) THEN <<>>
    ELSE IF UrlEnd(t, i) # 0 THEN <<" ">> \o SubUrls(t, UrlEnd(t, i) + 1)
    ELSE <<t[i]>> \o SubUrls(t, i + 1)

\* the class [A-Z0-9] and \w, on an upper-cased text
InClass(ch) == IsDigit(ch) \/ IsAlpha(ch)
IsWord(ch) == InClass(ch) \/ ch = "_"
\* \b before position i
Boundary(t, i) ==
    ((i - 1) \in DOMAIN t /\ IsWord(t[i - 1])) # (i \in DOMAIN t /\ IsWord(t[i]))

\* app.py:111  \b[A-Z0-9]{min_len,max_len}\b matched at i: the length of the
\* match (the longest that fits), 0 without a match
MatchLen(t, i, min_len, max_len) ==
    LET fits == {n \in min_len..max_len :
                    /\ i + n - 1 <= Len(t)
                    /\ \A k \in i..(i + n - 1) : InClass(t[k])
                    /\ Boundary(t, i)
                    /\ Boundary(t, i + n)}
    IN IF fits = {} THEN 0 ELSE CHOOSE n \in fits : \A m \in fits : m <= n

\* app.py:120  self.pattern.finditer(cleaned_upper)
RECURSIVE finditer(_, _, _, _)
finditer(t, i, min_len, max_len) ==
    IF i > Len(t) THEN <<>>
    ELSE LET n == MatchLen(t, i, min_len, max_len) IN
         IF n > 0 THEN <<SubSeq(t, i, i + n - 1)>> \o finditer(t, i + n, min_len, max_len)
         ELSE finditer(t, i + 1, min_len, max_len)

\* app.py:149-153
is_strictly_ascending(token) ==
    IF Len(token) <= 1 THEN FALSE
    ELSE \A i \in 1..(Len(token) - 1) : int(token[i + 1]) - int(token[i]) = 1

isdigit(token) == token # <<>> /\ \A i \in DOMAIN token : IsDigit(token[i])
isalpha(token) == token # <<>> /\ \A i \in DOMAIN token : IsAlpha(token[i])

\* app.py:122-133  the tests a match passes to be returned
Kept(st, token) ==
    /\ token \notin {Upper(entry) : entry \in st.denylist}
    /\ \E i \in DOMAIN token : IsDigit(token[i])
    /\ ~isalpha(token)
    /\ Cardinality({token[i] : i \in DOMAIN token}) # 1
    /\ ~(isdigit(token) /\ is_strictly_ascending(token))
    /\ st.min_len <= Len(token) /\ Len(token) <= st.max_len

\* app.py:114-135
extract(st, pieces) ==
    IF pieces = <<>> THEN <<>>
    ELSE LET cleaned == SubUrls(Flatten(pieces), 1)
             cleaned_upper == Upper(cleaned)
         IN SelectSeq(finditer(cleaned_upper, 1, st.min_len, st.max_len),
                      LAMBDA token : Kept(st, token))

\* MIN_LEN, MAX_LEN and the denylist as configured
SettingsInputs == {[min_len |-> 2, max_len |-> 3, denylist |-> {<<"a", "1">>}]}

ExtractInit ==
    /\ store = <<>>
    /\ db = [rows |-> <<>>, seq |-> 0]
    /\ last = NoCall
    /\ backend = "memory"
    /\ ConcIdle
    /\ HunterIdle
    /\ SchedIdle
    /\ FetchIdle
    /\ BroadcastIdle
    /\ ThreadIdle
    /\ settings \in SettingsInputs
    /\ text \in Texts
    /\ matches = <<>>
    /\ xpc = "idle"

\* app.py:424  codes = extractor.extract(combined)
Extract ==
    /\ xpc = "idle"
    /\ matches' = extract(settings, text)
    /\ xpc' = "done"
    /\ UNCHANGED <<settings, text>>
    /\ UNCHANGED <<store, db, last, concVars, hunterVars, schedVars, fetchVars, broadcastVars, threadVars>>

ExtractNext == Extract

SpecExtract == ExtractInit /\ [][ExtractNext]_vars

\* C28: extract returns no token twice.
C28_NoTokenTwice ==
    xpc = "done" => \A i, j \in DOMAIN matches : matches[i] = matches[j] => i = j

\* each digit is greater than the one before
AscendingDigits(token) ==
    /\ isdigit(token)
    /\ Len(token) > 1
    /\ \A i \in 1..(Len(token) - 1) : int(token[i + 1]) > int(token[i])

\* C29: extract returns no token made of one repeated character and no token
\* that is a run of digits each greater than the one before.
C29_NoRepeatedNoAscending ==
    xpc = "done" =>
        \A i \in DOMAIN matches :
            /\ Cardinality({matches[i][k] : k \in DOMAIN matches[i]}) # 1
            /\ ~AscendingDigits(matches[i])

\* C30: every token that extract returns has a digit and a letter, has a
\* length from min_len to max_len and is none of the denylist entries
\* (compared in upper case, as a whole).
C30_DigitLetterLengthDenylist ==
    xpc = "done" =>
        \A i \in DOMAIN matches :
            /\ \E k \in DOMAIN matches[i] : IsDigit(matches[i][k])
            /\ \E k \in DOMAIN matches[i] : IsAlpha(matches[i][k])
            /\ settings.min_len <= Len(matches[i]) /\ Len(matches[i]) <= settings.max_len
            /\ \A entry \in settings.denylist : matches[i] # Upper(entry)

\* position k of the text t lies in a URL: a scheme http:// or https:// begins
\* at or before k, a character that is no white space follows it, and no
\* white space lies between the beginning of the scheme and k
InUrl(t, k) ==
    \E s \in 1..k :
        /\ \/ StartsWith(t, s, Http) /\ (s + Len(Http)) \in DOMAIN t /\ t[s + Len(Http)] # " "
           \/ StartsWith(t, s, Https) /\ (s + Len(Https)) \in DOMAIN t /\ t[s + Len(Https)] # " "
        /\ \A j \in s..k : t[j] # " "

\* the n characters of t from position i on lie outside every URL
OutsideUrl(t, i, n) ==
    /\ n >= 1
    /\ i >= 1
    /\ i + n - 1 <= Len(t)
    /\ \A k \in i..(i + n - 1) : ~InUrl(t, k)

\* the n characters of the upper-cased text u from position i on are a token
Token(u, i, n) ==
    /\ n >= 1
    /\ i >= 1
    /\ i + n - 1 <= Len(u)
    /\ \A k \in i..(i + n - 1) : InClass(u[k])
    /\ Boundary(u, i)
    /\ Boundary(u, i + n)

----------------------------------------------------------------------------
(* The start of the poller thread: the module-level start of app.py and    *)
(* _start_background_thread of the Pro edition, called by _startup at       *)
(* import and by create_app, and the poller threads they start.             *)

\* what the thread routines leave alone
nonThreadVars == <<store, db, last, concVars, hunterVars, schedVars, fetchVars, broadcastVars,
                   extractVars>>

StartInit ==
    /\ store = <<>>
    /\ db = [rows |-> <<>>, seq |-> 0]
    /\ last = NoCall
    /\ backend = "memory"
    /\ ConcIdle
    /\ HunterIdle
    /\ SchedIdle
    /\ FetchIdle
    /\ BroadcastIdle
    /\ ExtractIdle
    /\ ThreadIdle

\* a lock that holds nobody off
StateLockFree_always(l) == TRUE

\* sora_invite.py:614  with state.lock: the lock can be taken
StateLockFree(l) == l = 0

\* sora_invite.py:615  state.worker_thread.is_alive()
is_alive(t) == t \in alive

\* app.py:486-489  the module is run (once per process): polling_thread is
\* made and started
AppImport ==
    /\ polling_thread = None
    /\ worker_thread = None
    /\ \A c \in Starters : spc[c] = "idle"
    /\ polling_thread' = 0
    /\ alive' = alive \cup {0}
    /\ UNCHANGED <<worker_thread, slock, spc, pos, entriesVars>>
    /\ UNCHANGED nonThreadVars

\* sora_invite.py:614  with state.lock:
start_acquire(c) ==
    /\ polling_thread = None
    /\ spc[c] = "idle"
    /\ StateLockFree(slock)
    /\ slock' = c
    /\ spc' = [spc EXCEPT ![c] = "check"]
    /\ UNCHANGED <<polling_thread, worker_thread, alive, pos, entriesVars>>
    /\ UNCHANGED nonThreadVars

\* sora_invite.py:615-616  if state.worker_thread and ...is_alive(): return
start_check(c) ==
    /\ spc[c] = "check"
    /\ spc' = [spc EXCEPT ![c] = IF worker_thread # None /\ is_alive(worker_thread)
                                 THEN "release" ELSE "start"]
    /\ UNCHANGED <<polling_thread, worker_thread, alive, slock, pos, entriesVars>>
    /\ UNCHANGED nonThreadVars

\* sora_invite.py:617-618  thread = threading.Thread(...); thread.start()
start_thread(c) ==
    /\ spc[c] = "start"
    /\ alive' = alive \cup {c}
    /\ pos' = [pos EXCEPT ![c] = [src |-> 0, phase |-> "idle"]]
    /\ spc' = [spc EXCEPT ![c] = "assign"]
    /\ UNCHANGED <<polling_thread, worker_thread, slock, entriesVars>>
    /\ UNCHANGED nonThreadVars

\* sora_invite.py:619  state.worker_thread = thread
start_assign(c) ==
    /\ spc[c] = "assign"
    /\ worker_thread' = c
    /\ spc' = [spc EXCEPT ![c] = "release"]
    /\ UNCHANGED <<polling_thread, alive, slock, pos, entriesVars>>
    /\ UNCHANGED nonThreadVars

\* sora_invite.py:614-619  the with block is left
start_release(c) ==
    /\ spc[c] = "release"
    /\ slock' = IF slock = c THEN 0 ELSE slock
    /\ spc' = [spc EXCEPT ![c] = "done"]
    /\ UNCHANGED <<polling_thread, worker_thread, alive, pos, entriesVars>>
    /\ UNCHANGED nonThreadVars

\* app.py:449-454, sora_invite.py:554-576  the loop of thread t comes to a
\* source that it does not pass over and calls its fetch
poll_fetch(t, s) ==
    /\ is_alive(t)
    /\ pos[t].phase = "idle"
    /\ pos' = [pos EXCEPT ![t] = [src |-> s, phase |-> "fetch"]]
    /\ UNCHANGED <<polling_thread, worker_thread, alive, slock, spc, entriesVars>>
    /\ UNCHANGED nonThreadVars

\* app.py:454-480, sora_invite.py:576-600  fetch and the processing return or
\* raise: the scheduling state of the source is about to be written
poll_return(t) ==
    /\ is_alive(t)
    /\ pos[t].phase = "fetch"
    /\ pos' = [pos EXCEPT ![t].phase = "update"]
    /\ UNCHANGED <<polling_thread, worker_thread, alive, slock, spc, entriesVars>>
    /\ UNCHANGED nonThreadVars

\* app.py:463,474,480 record_success / record_failure; sora_invite.py:579-600
\* failure_count, cooldown_until, disabled_reason are written
poll_update(t) ==
    /\ is_alive(t)
    /\ pos[t].phase = "update"
    /\ pos' = [pos EXCEPT ![t].phase = "idle"]
    /\ UNCHANGED <<polling_thread, worker_thread, alive, slock, spc, entriesVars>>
    /\ UNCHANGED nonThreadVars

\* the thread ends: app.py:447 the stop event is set, or an error leaves the
\* loop outside its try blocks
thread_ends(t) ==
    /\ is_alive(t)
    /\ alive' = alive \ {t}
    /\ pos' = [pos EXCEPT ![t] = [src |-> 0, phase |-> "idle"]]
    /\ UNCHANGED <<polling_thread, worker_thread, slock, spc, entriesVars>>
    /\ UNCHANGED nonThreadVars

StartNext ==
    \/ AppImport
    \/ \E c \in Starters : start_acquire(c)
    \/ \E c \in Starters : start_check(c)
    \/ \E c \in Starters : start_thread(c)
    \/ \E c \in Starters : start_assign(c)
    \/ \E c \in Starters : start_release(c)
    \/ \E t \in Threads : \E s \in Sources : poll_fetch(t, s)
    \/ \E t \in Threads : poll_return(t)
    \/ \E t \in Threads : poll_update(t)
    \/ \E t \in Threads : thread_ends(t)

SpecStart == StartInit /\ [][StartNext]_vars

\* the poller threads that are fetching source s or writing its scheduling state
InFlight(s) == {t \in alive : pos[t].src = s /\ pos[t].phase # "idle"}

\* C35: at any time at most one poller thread is fetching a source or writing
\* its scheduling state, however often the start routine has been called.
C35_OneFetchPerSource ==
    \A s \in Sources : Cardinality(InFlight(s)) <= 1

\* every call of _start_background_thread has returned, the first one's
\* thread has ended, and the thread of a later call has a fetch in flight
C35_Witness ==
    /\ \A c \in Starters : spc[c] = "done"
    /\ worker_thread # None
    /\ Cardinality({c \in Starters : c \notin alive /\ pos[c].src = 0}) >= 1
    /\ is_alive(worker_thread)
    /\ pos[worker_thread].phase = "fetch"

----------------------------------------------------------------------------
(* _process_entries of the Pro edition (sora_invite.py:514-544): the loop  *)
(* over the tokens of an entry, run by several threads at once.  Tokens are *)
(* the lists a call is given by _extract_tokens, which returns no token     *)
(* twice; with TOKEN_PATTERN as it is written (sora_invite.py:71, a literal *)
(* backslash and a lower-case b around the six characters) no upper-cased   *)
(* text matches, so the lists explored here are those a matching pattern    *)
(* would give.                                                              *)

\* bound: the calls of _process_entries
MaxEntryCalls == 3

MAX_CANDIDATES == 1000

\* sora_invite.py:482-488  the ordered tokens of one entry, none twice
TokenInputs ==
    {<<>>} \cup {<<k>> : k \in Tokens}
           \cup ({<<k, l>> : k, l \in Tokens} \ {<<k, k>> : k \in Tokens})

EntriesInit ==
    /\ store = <<>>
    /\ db = [rows |-> <<>>, seq |-> 0]
    /\ last = NoCall
    /\ backend = "memory"
    /\ ConcIdle
    /\ HunterIdle
    /\ SchedIdle
    /\ FetchIdle
    /\ BroadcastIdle
    /\ ExtractIdle
    /\ ThreadIdle

\* a test that finds nothing
InSeen_never(token, codes) == FALSE

\* sora_invite.py:522  token in state.seen_codes
InSeen(token, codes) == token \in codes

\* collections.deque(maxlen=...).append: the oldest element goes when full
deque_append(d, x, maxlen) ==
    IF Len(d) >= maxlen THEN Append(Tail(d), x) ELSE Append(d, x)

\* sora_invite.py:514-519  a thread calls _process_entries with an entry
process_entries(w, tokens) ==
    /\ epc[w] = "idle"
    /\ ecalls < MaxEntryCalls
    /\ ecalls' = ecalls + 1
    /\ etokens' = [etokens EXCEPT ![w] = tokens]
    /\ epc' = [epc EXCEPT ![w] = "for"]
    /\ UNCHANGED <<slock, startVars, seen_codes, state_candidates, ecur, efound, appended>>
    /\ UNCHANGED nonThreadVars

\* sora_invite.py:520  for token in tokens; 544  return new_candidates
for_token(w) ==
    /\ epc[w] = "for"
    /\ IF etokens[w] = <<>>
       THEN /\ epc' = [epc EXCEPT ![w] = "idle"]
            /\ UNCHANGED <<etokens, ecur>>
       ELSE /\ ecur' = [ecur EXCEPT ![w] = Head(etokens[w])]
            /\ etokens' = [etokens EXCEPT ![w] = Tail(@)]
            /\ epc' = [epc EXCEPT ![w] = "seen"]
    /\ UNCHANGED <<slock, startVars, seen_codes, state_candidates, efound, appended, ecalls>>
    /\ UNCHANGED nonThreadVars

\* sora_invite.py:521  with state.lock:
seen_acquire(w) ==
    /\ epc[w] = "seen"
    /\ StateLockFree(slock)
    /\ slock' = w
    /\ epc' = [epc EXCEPT ![w] = "check"]
    /\ UNCHANGED <<startVars, seen_codes, state_candidates, etokens, ecur, efound, appended, ecalls>>
    /\ UNCHANGED nonThreadVars

\* sora_invite.py:522  if token in state.seen_codes:
seen_check(w) ==
    /\ epc[w] = "check"
    /\ efound' = [efound EXCEPT ![w] = InSeen(ecur[w], seen_codes)]
    /\ epc' = [epc EXCEPT ![w] = "checked"]
    /\ UNCHANGED <<slock, startVars, seen_codes, state_candidates, etokens, ecur, appended, ecalls>>
    /\ UNCHANGED nonThreadVars

\* sora_invite.py:523-524  continue, or state.seen_codes.add(token); the
\* with block is left
seen_add(w) ==
    /\ epc[w] = "checked"
    /\ IF efound[w]
       THEN /\ epc' = [epc EXCEPT ![w] = "for"]
            /\ UNCHANGED seen_codes
       ELSE /\ seen_codes' = seen_codes \cup {ecur[w]}
            /\ epc' = [epc EXCEPT ![w] = "build"]
    /\ slock' = IF slock = w THEN 0 ELSE slock
    /\ UNCHANGED <<startVars, state_candidates, etokens, ecur, efound, appended, ecalls>>
    /\ UNCHANGED nonThreadVars

\* sora_invite.py:525-539  the Candidate is built; 540  with state.lock:
candidate_acquire(w) ==
    /\ epc[w] = "build"
    /\ StateLockFree(slock)
    /\ slock' = w
    /\ epc' = [epc EXCEPT ![w] = "append"]
    /\ UNCHANGED <<startVars, seen_codes, state_candidates, etokens, ecur, efound, appended, ecalls>>
    /\ UNCHANGED nonThreadVars

\* sora_invite.py:541-543  state.candidates.append(candidate); the with block
\* is left
candidate_append(w) ==
    /\ epc[w] = "append"
    /\ state_candidates' = deque_append(state_candidates, ecur[w], MAX_CANDIDATES)
    /\ appended' = [appended EXCEPT ![ecur[w]] = @ + 1]
    /\ slock' = IF slock = w THEN 0 ELSE slock
    /\ epc' = [epc EXCEPT ![w] = "for"]
    /\ UNCHANGED <<startVars, seen_codes, etokens, ecur, efound, ecalls>>
    /\ UNCHANGED nonThreadVars

EntriesNext ==
    \/ \E w \in Workers : \E tokens \in TokenInputs : process_entries(w, tokens)
    \/ \E w \in Workers : for_token(w)
    \/ \E w \in Workers : seen_acquire(w)
    \/ \E w \in Workers : seen_check(w)
    \/ \E w \in Workers : seen_add(w)
    \/ \E w \in Workers : candidate_acquire(w)
    \/ \E w \in Workers : candidate_append(w)

SpecEntries == EntriesInit /\ [][EntriesNext]_vars

\* C39: _process_entries appends at most one Candidate per token, whatever
\* the interleaving of its callers: no token has been appended twice and
\* state.candidates holds no code twice; and every code in state.candidates
\* is in state.seen_codes.
C39_OneCandidatePerToken ==
    /\ \A k \in Tokens : appended[k] <= 1
    /\ \A i, j \in DOMAIN state_candidates :
          state_candidates[i] = state_candidates[j] => i = j
    /\ \A i \in DOMAIN state_candidates : state_candidates[i] \in seen_codes

\* two threads have come to the same token: one has appended its Candidate,
\* the other, inside the lock, has found the token seen
C39_Witness ==
    \E w, v \in Workers :
        /\ w # v
        /\ ecur[w] = ecur[v]
        /\ ecur[w] \in Tokens
        /\ appended[ecur[w]] = 1
        /\ ~efound[v]
        /\ epc[w] = "checked"
        /\ efound[w]
        /\ slock = w

====
